---- MODULE Spec2Model ----
(***************************************************************************)
(* A model of the attribute domain of declarative-dataflow                 *)
(* (src/src/domain/mod.rs): the Domain with its ingest sessions, attribute *)
(* indices and relation traces, and the CardinalityOne operator that       *)
(* create_attribute installs between an ingest session and its indices.    *)
(***************************************************************************)
EXTENDS Integers, Sequences, FiniteSets, TLC

\* ------------------------------------------------------------------ bounds
\* Times are u64 in the server (worker.dataflow::<u64, _, _>); the model keeps
\* the unsigned width but scales it down to TimeBits bits.
TimeBits == 3
\* Largest time a caller passes to advance_to.
MaxTime == 2
\* Largest trace_slack a configuration carries.
MaxSlack == 2
\* Longest list of datoms handed to one transact call.
MaxTx == 2
\* Most updates buffered in the ingest sessions of the domain between flushes
\* (an InputSession flushes by itself only once its buffer is full, which
\* buffers this short never are).
MaxBuf == 2
\* Longest file a source reads, in lines or records.
MaxRows == 4
\* Most workers reading the file.
MaxPeers == 3
\* Lines the JSON source takes in one activation (256 - 1 in the code).
MaxLines == 2
\* Most copies of one datom in the collection of an attribute.
MaxCopies == 2
\* Most paths of a Pull.
MaxPaths == 2
\* Most nodes of the graph a recursive rule runs on.
MaxNodes == 4
\* Most bindings of one variable of a Hector plan.
MaxBindings == 2

RECURSIVE Pow2(_)
Pow2(n) == IF n = 0 THEN 1 ELSE 2 * Pow2(n - 1)

\* Number of values of the unsigned time type.
Modulus == Pow2(TimeBits)

Aids == {"a", "b"}
RelNames == {"r"}
Eids == {100}
Values == {"A", "B"}
Diffs == {1, -1}
\* The values the datoms of a transaction carry.
TxValues == {"A"}

\* Option<Time>
None == [some |-> FALSE, val |-> 0]
Some(x) == [some |-> TRUE, val |-> x]

\* lib.rs InputSemantics / AttributeSemantics
InputSemantics == {"Raw", "CardinalityOne", "CardinalityMany"}

\* AttributeConfig { input_semantics, trace_slack }: the configurations the
\* model creates attributes with, one per input semantics, without a slack,
\* with a slack every advance can subtract, and with the largest slack.
AttributeConfigs ==
    {[input_semantics |-> "Raw", trace_slack |-> None],
     [input_semantics |-> "CardinalityOne", trace_slack |-> Some(1)],
     [input_semantics |-> "CardinalityMany", trace_slack |-> Some(MaxSlack)]}
\* RelationConfig { trace_slack }: without a slack and with the largest one.
RelationConfigs == [trace_slack : {None, Some(MaxSlack)}]

\* TxData(op, e, a, v)
TxDatas == [op : Diffs, e : Eids, a : Aids, v : TxValues]

RECURSIVE SeqsUpTo(_, _)
SeqsUpTo(S, n) ==
    IF n = 0 THEN {<<>>}
    ELSE LET shorter == SeqsUpTo(S, n - 1)
         IN  shorter \cup {Append(s, x) : s \in {q \in shorter : Len(q) = n - 1}, x \in S}

TxLists == SeqsUpTo(TxDatas, MaxTx)

VARIABLES
    now_at,           \* Domain.now_at
    input_sessions,   \* Domain.input_sessions: Aid -> [time, buffer]
    attributes,       \* Domain.attributes: Aid -> AttributeConfig
    forward,          \* Domain.forward: Aid -> CollectionIndex
    reverse,          \* Domain.reverse: Aid -> CollectionIndex
    relations,        \* Domain.relations: name -> RelationConfig
    arrangements,     \* Domain.arrangements: name -> trace handle
    panicked,         \* the worker thread has panicked
    last              \* the last call on the Domain and what it returned

domainVars == <<now_at, input_sessions, attributes, forward, reverse, relations,
                arrangements, panicked, last>>

\* The CardinalityOne operator of an attribute and the session that feeds it.
VARIABLES
    handle,        \* the attribute's InputSession: [time, buffer]
    channel,       \* batches sent by the session, not yet pulled by the operator
    input_frontier, \* input.frontier() as the operator sees it
    notificator,   \* times the FrontierNotificator holds a capability for
    eids,          \* eids: time -> set of Eid
    current,       \* current: Eid -> Value
    nxt,           \* next: Eid -> (time, Value)
    output,        \* the updates given to the output session, in order
    arrived        \* the proposals the operator has pulled, in arrival order

operatorVars == <<handle, channel, input_frontier, notificator, eids, current, nxt,
                  output, arrived>>

\* The pipeline of one attribute behind its ingest session: the stage its
\* input semantics selects and the two indices built from the stage's output.
VARIABLES
    semantics,      \* config.input_semantics of the attribute
    forward_trace,  \* what the forward index has arranged: updates of (e, v)
    reverse_trace   \* what the reverse index has arranged: updates of (v, e)

pipelineVars == <<semantics, forward_trace, reverse_trace>>

\* One worker of the server (src/src/bin/server.rs): its Server state, its
\* client connections and its channels. The Domain above is the server's
\* server.context.internal.
VARIABLES
    manual_advance,   \* config.manual_advance
    next_tx,          \* sequence counter for commands
    command,          \* the command the loop is handling, with the requests left
    rules,            \* the rules registered in the context, by name
    interests,        \* server.interests: name -> set of client tokens
    shutdown_handles, \* server.shutdown_handles: name -> the handle's buttons
    live_buttons,     \* the shutdown buttons not pressed so far
    compiled,         \* number of dataflows compiled so far
    connections,      \* the occupied keys of the connections slab
    slab_free,        \* the vacated keys of the slab, last vacated first
    registration,     \* the token each channel is registered with at the poll
    recv_results,     \* the results channel: names of relations with a batch
    recv_errors,      \* the errors channel
    sent,             \* the frames the last RESULTS or ERRORS event sent
    subscribers,      \* clients that have issued Interest and not Uninterest since,
                      \* and whether they have disconnected (gone)
    before            \* the request handled last; for an Interest, the maps before it

serverVars == <<manual_advance, next_tx, command, rules, interests, shutdown_handles,
                live_buttons, compiled, connections, slab_free, registration,
                recv_results, recv_errors, sent, subscribers, before>>

\* Planning: a context of rules and attributes, and the last call of
\* implement on it.
VARIABLES
    context,       \* the ImplContext: rules by name, and the attributes
    implemented,   \* what the last call of implement returned
    collected      \* what the last call of collect_dependencies was given and returned

planVars == <<context, implemented, collected>>

\* File sources: one file, read by every worker with a reader of its own.
VARIABLES
    file,          \* the lines (JSON) or records (CSV) of the file
    format,        \* "csv" or "json"
    peers,         \* scope.peers(), the number of workers
    readers,       \* per worker: lines consumed, record index, rows read,
                   \* and whether the source still holds its capability
    given          \* per worker: the record indices it gave to its session

sourceVars == <<file, format, peers, readers, given>>

\* Evaluation: the collections of the attributes, the plan that was lowered
\* on them, and the collection it produces.
VARIABLES
    db,              \* per attribute, the (e, v) pairs asserted, counted
    input_semantics, \* per attribute, config.input_semantics
    set_semantics,   \* whether the build has the feature set-semantics
    unions,          \* whether a Union keeps or merges equal tuples
    proposers,       \* per variable of a Hector plan, the binding that proposes
    query,           \* the plan
    produced         \* what the plan's dataflow has produced, accumulated

queryVars == <<db, input_semantics, set_semantics, unions, proposers, query, produced>>

\* The iterative scope of a published rule, round by round.
VARIABLES
    scope,           \* whether it runs, the rules' variables, whether they are final
    turn             \* flips with every round of the scope

scopeVars == <<scope, turn>>

\* Shutdown handles: the handles made so far, the buttons made, and the
\* buttons pressed, in the order they were pressed.
VARIABLES
    handles,         \* per handle: whether it is owned, and its shutdown_buttons
    made,            \* the number of buttons made
    pressed          \* the buttons pressed so far, in order

handleVars == <<handles, made, pressed>>

\* The results of the relation as its subscribers get them. The relation
\* holds one tuple; its contents are the tuple's multiplicity.
VARIABLES
    contents,        \* the contents of the relation at the current time
    emitted,         \* what the relation's live dataflow has passed to ResultsRecv
    result_diffs,    \* the diffs of the batches in the results channel
    delivered        \* per connection, the sum of the diffs sent on it

deliveryVars == <<contents, emitted, result_diffs, delivered>>

\* The sinks of the server's domain.
VARIABLES
    sinks            \* server.context.internal.sinks: the names of the sinks

sinkVars == <<sinks>>

\* ------------------------------------------------------------ finite maps
\* HashMap::insert
Insert(m, k, v) == [x \in DOMAIN m \cup {k} |-> IF x = k THEN v ELSE m[x]]
\* (mutant) the entry is left in the map.
Remove_not(m, k) == m

\* HashMap::remove
Remove(m, k) == [x \in DOMAIN m \ {k} |-> m[x]]
EmptyMap == [x \in {} |-> x]

\* An InputSession fresh from scope.new_collection: its time is the
\* timestamp minimum, its buffer is empty.
NewSession == [time |-> 0, buffer |-> <<>>]

\* A CollectionIndex fresh from CollectionIndex::index: three traces whose
\* advance frontier is the timestamp minimum.
NewIndex == [count_trace |-> 0, propose_trace |-> 0, validate_trace |-> 0]

\* CollectionIndex::advance_by
IndexAdvanceBy(idx, frontier) ==
    [count_trace |-> frontier, propose_trace |-> frontier, validate_trace |-> frontier]

\* A relation trace handle as register_arrangement receives it.
NewTrace == 0

Err(category) == category
Ok == "ok"
Conflict == "df.error.category/conflict"
NotFound == "df.error.category/not-found"
Panic == "panic"

Call(op, arg, result) == [op |-> op, arg |-> arg, result |-> result]

\* --------------------------------------------------------- Domain::new
DomainInit ==
    /\ now_at = 0
    /\ input_sessions = EmptyMap
    /\ attributes = EmptyMap
    /\ forward = EmptyMap
    /\ reverse = EmptyMap
    /\ relations = EmptyMap
    /\ arrangements = EmptyMap
    /\ panicked = FALSE
    /\ last = Call("new", 0, Ok)

\* (mutant) the check looks the name up among the attribute configurations.
AlreadyExists_in_attributes(name) == name \in DOMAIN attributes

\* self.forward.contains_key(name)
AlreadyExists(name) == name \in DOMAIN forward

\* ------------------------------------------------ Domain::create_attribute
create_attribute(name, config) ==
    /\ ~panicked
    /\ UNCHANGED <<operatorVars, pipelineVars, planVars, sourceVars, queryVars, scopeVars, handleVars, deliveryVars, sinkVars>>
    /\ IF AlreadyExists(name)
       THEN /\ last' = Call("create_attribute", name, Err(Conflict))
            /\ UNCHANGED <<attributes, forward, reverse, input_sessions>>
       ELSE /\ attributes' = Insert(attributes, name, config)
            /\ forward' = Insert(forward, name, NewIndex)
            /\ reverse' = Insert(reverse, name, NewIndex)
            /\ input_sessions' = Insert(input_sessions, name, NewSession)
            /\ last' = Call("create_attribute", name, Ok)
    /\ UNCHANGED <<now_at, relations, arrangements, panicked>>

\* --------------------------------------------------- Domain::create_source
create_source(name) ==
    /\ ~panicked
    /\ UNCHANGED <<operatorVars, pipelineVars, planVars, sourceVars, queryVars, scopeVars, handleVars, deliveryVars, sinkVars>>
    /\ IF AlreadyExists(name)
       THEN /\ last' = Call("create_source", name, Err(Conflict))
            /\ UNCHANGED <<forward, reverse>>
       ELSE /\ forward' = Insert(forward, name, NewIndex)
            /\ reverse' = Insert(reverse, name, NewIndex)
            /\ last' = Call("create_source", name, Ok)
    /\ UNCHANGED <<now_at, attributes, input_sessions, relations, arrangements, panicked>>

\* --------------------------------------------- Domain::register_arrangement
register_arrangement(name, config) ==
    /\ ~panicked
    /\ UNCHANGED <<operatorVars, pipelineVars, planVars, sourceVars, queryVars, scopeVars, handleVars, deliveryVars, sinkVars>>
    /\ relations' = Insert(relations, name, config)
    /\ arrangements' = Insert(arrangements, name, NewTrace)
    /\ last' = Call("register_arrangement", name, Ok)
    /\ UNCHANGED <<now_at, input_sessions, attributes, forward, reverse, panicked>>

\* ------------------------------------------------------- Domain::transact
\* (mutant) the update is put in front of the buffered ones.
SessionUpdate_prepend(session, e, v, op) ==
    [session EXCEPT !.buffer = <<[e |-> e, v |-> v, t |-> session.time, diff |-> op]>> \o @]

\* InputSession::update: the update is buffered under the session's time.
SessionUpdate(session, e, v, op) ==
    [session EXCEPT !.buffer = Append(@, [e |-> e, v |-> v, t |-> session.time, diff |-> op])]

\* The loop of transact over tx_data from position i, on the sessions so far:
\* the sessions it leaves and the result it returns.
RECURSIVE TransactFrom(_, _, _)
TransactFrom(sessions, tx_data, i) ==
    IF i > Len(tx_data)
    THEN [sessions |-> sessions, result |-> Ok]
    ELSE LET d == tx_data[i]
         IN  IF d.a \notin DOMAIN sessions
             THEN [sessions |-> sessions, result |-> Err(NotFound)]
             ELSE TransactFrom(
                      [sessions EXCEPT ![d.a] = SessionUpdate(@, d.e, d.v, d.op)],
                      tx_data, i + 1)

RECURSIVE SumLen(_, _)
SumLen(sessions, S) ==
    IF S = {} THEN 0
    ELSE LET a == CHOOSE x \in S : TRUE
         IN  Len(sessions[a].buffer) + SumLen(sessions, S \ {a})

\* The number of updates buffered in all sessions.
Buffered(sessions) == SumLen(sessions, DOMAIN sessions)

transact(tx_data) ==
    /\ ~panicked
    /\ UNCHANGED <<operatorVars, pipelineVars, planVars, sourceVars, queryVars, scopeVars, handleVars, deliveryVars, sinkVars>>
    /\ Buffered(input_sessions) + Len(tx_data) <= MaxBuf
    /\ LET r == TransactFrom(input_sessions, tx_data, 1)
       IN  /\ input_sessions' = r.sessions
           /\ last' = Call("transact", tx_data, r.result)
    /\ UNCHANGED <<now_at, attributes, forward, reverse, relations, arrangements, panicked>>

\* ---------------------------------------------------- Domain::close_input
\* (mutant) the session is reported closed but stays in the map.
close_input_keeps(name) ==
    /\ ~panicked
    /\ UNCHANGED <<operatorVars, pipelineVars, planVars, sourceVars, queryVars, scopeVars, handleVars, deliveryVars, sinkVars>>
    /\ last' = Call("close_input", name,
                    IF name \in DOMAIN input_sessions THEN Ok ELSE Err(NotFound))
    /\ UNCHANGED <<now_at, input_sessions, attributes, forward, reverse, relations,
                   arrangements, panicked>>

close_input(name) ==
    /\ ~panicked
    /\ UNCHANGED <<operatorVars, pipelineVars, planVars, sourceVars, queryVars, scopeVars, handleVars, deliveryVars, sinkVars>>
    /\ IF name \notin DOMAIN input_sessions
       THEN /\ last' = Call("close_input", name, Err(NotFound))
            /\ UNCHANGED input_sessions
       ELSE /\ input_sessions' = Remove(input_sessions, name)
            /\ last' = Call("close_input", name, Ok)
    /\ UNCHANGED <<now_at, attributes, forward, reverse, relations, arrangements, panicked>>

\* ------------------------------------------------------ Domain::advance_to
\* (mutants) the rewind check is off by one, is missing, is strict.
Rewinds_off_by_one(now, next) == ~(now <= next + 1)
Rewinds_never(now, next) == FALSE
Rewinds_strict(now, next) == ~(now < next)

\* !self.now_at.less_equal(&next)
Rewinds(now, next) == ~(now <= next)

\* handle.advance_to(next); handle.flush(): the buffered updates leave the
\* session for the dataflow and the session's time is next.
SessionAdvanceTo(session, next) == [time |-> next, buffer |-> <<>>]

\* for handle in self.input_sessions.values_mut() { ... }
SessionsAdvanceTo(sessions, next) ==
    [a \in DOMAIN sessions |-> SessionAdvanceTo(sessions[a], next)]

\* next - trace_slack on the unsigned time type overflows.
Overflows(next, slack) == slack > next

\* next.clone() - trace_slack.clone().into(), as the unsigned subtraction
\* computes it when overflow is not checked.
TraceFrontier(next, slack) == (next - slack) % Modulus

\* The attributes, and the relations, that carry a trace_slack.
WithSlack(configs) == {k \in DOMAIN configs : configs[k].trace_slack.some}

\* self.forward / self.reverse after the loop over self.attributes has
\* advanced the indices of the attributes in done.
IndicesAdvanced(indices, done, next) ==
    [a \in DOMAIN indices |->
        IF a \in done
        THEN IndexAdvanceBy(indices[a], TraceFrontier(next, attributes[a].trace_slack.val))
        ELSE indices[a]]

\* self.arrangements after the loop over self.relations has advanced the
\* traces of the relations in done.
ArrangementsAdvanced(traces, done, next) ==
    [n \in DOMAIN traces |->
        IF n \in done
        THEN TraceFrontier(next, relations[n].trace_slack.val)
        ELSE traces[n]]

advance_to(next) ==
    /\ ~panicked
    /\ UNCHANGED <<operatorVars, pipelineVars, planVars, sourceVars, queryVars, scopeVars, handleVars, deliveryVars, sinkVars>>
    /\ IF Rewinds(now_at, next)
       THEN /\ last' = Call("advance_to", next, Err(Conflict))
            /\ UNCHANGED <<now_at, input_sessions, forward, reverse, arrangements, panicked>>
       ELSE IF now_at # next
       THEN /\ now_at' = next
            /\ input_sessions' = SessionsAdvanceTo(input_sessions, next)
            /\ \E checked \in BOOLEAN :
               \* checked: the build checks arithmetic overflow (the subtraction
               \* panics); otherwise the subtraction wraps
               LET attrs == WithSlack(attributes)
                   attrsOver == {a \in attrs : Overflows(next, attributes[a].trace_slack.val)}
                   rels == WithSlack(relations)
                   relsOver == {n \in rels : Overflows(next, relations[n].trace_slack.val)}
               IN  IF attrsOver # {} /\ checked
                   THEN \* the subtraction panics at the first such attribute
                        \* the HashMap iteration reaches
                        \E done \in SUBSET (attrs \ attrsOver) :
                            /\ forward' = IndicesAdvanced(forward, done, next)
                            /\ reverse' = IndicesAdvanced(reverse, done, next)
                            /\ UNCHANGED arrangements
                            /\ panicked' = TRUE
                            /\ last' = Call("advance_to", next, Panic)
                   ELSE /\ forward' = IndicesAdvanced(forward, attrs, next)
                        /\ reverse' = IndicesAdvanced(reverse, attrs, next)
                        /\ IF relsOver # {} /\ checked
                           THEN \E done \in SUBSET (rels \ relsOver) :
                                    /\ arrangements' = ArrangementsAdvanced(arrangements, done, next)
                                    /\ panicked' = TRUE
                                    /\ last' = Call("advance_to", next, Panic)
                           ELSE /\ arrangements' = ArrangementsAdvanced(arrangements, rels, next)
                                /\ UNCHANGED panicked
                                /\ last' = Call("advance_to", next, Ok)
       ELSE /\ last' = Call("advance_to", next, Ok)
            /\ UNCHANGED <<now_at, input_sessions, forward, reverse, arrangements, panicked>>
    /\ UNCHANGED <<attributes, relations>>

\* ------------------------------------------------------------ the Domain
\* The calls on a Domain by itself, outside a server.
DomainNext ==
    \/ \E name \in Aids, config \in AttributeConfigs :
          create_attribute(name, config) /\ UNCHANGED serverVars
    \/ \E name \in Aids : create_source(name) /\ UNCHANGED serverVars
    \/ \E name \in RelNames, config \in RelationConfigs :
          register_arrangement(name, config) /\ UNCHANGED serverVars
    \/ \E tx_data \in TxLists : transact(tx_data) /\ UNCHANGED serverVars
    \/ \E name \in Aids : close_input(name) /\ UNCHANGED serverVars
    \/ \E next \in 0..MaxTime : advance_to(next) /\ UNCHANGED serverVars

\* ============================================== the CardinalityOne operator
\* The operator create_attribute puts between the ingest session of a
\* CardinalityOne attribute and its indices, with the session that feeds it.
\* Most updates an ingest session receives in a run of the operator.
MaxUpdates == 3

OperatorInit ==
    /\ handle = NewSession
    /\ channel = <<>>
    /\ input_frontier = 0
    /\ notificator = {}
    /\ eids = EmptyMap
    /\ current = EmptyMap
    /\ nxt = EmptyMap
    /\ output = <<>>
    /\ arrived = <<>>

RECURSIVE SumBatches(_, _)
SumBatches(batches, i) ==
    IF i > Len(batches) THEN 0 ELSE Len(batches[i].data) + SumBatches(batches, i + 1)

\* handle.update((Value::Eid(e), v), op), as transact calls it.
Update(e, v, op) ==
    /\ handle.time < MaxTime
    /\ Len(arrived) + SumBatches(channel, 1) + Len(handle.buffer) < MaxUpdates
    /\ handle' = SessionUpdate(handle, e, v, op)
    /\ UNCHANGED <<channel, input_frontier, notificator, eids, current, nxt, output, arrived>>
    /\ UNCHANGED <<domainVars, pipelineVars, serverVars, planVars, sourceVars, queryVars, scopeVars, handleVars, deliveryVars, sinkVars>>

\* handle.advance_to(next); handle.flush(), as advance_to calls them: the
\* buffered updates are sent as one batch under the capability of the time
\* the session was at.
Flush(next) ==
    /\ handle.time < next
    /\ channel' = IF handle.buffer = <<>> THEN channel
                  ELSE Append(channel, [cap |-> handle.time, data |-> handle.buffer])
    /\ handle' = SessionAdvanceTo(handle, next)
    /\ UNCHANGED <<input_frontier, notificator, eids, current, nxt, output, arrived>>
    /\ UNCHANGED <<domainVars, pipelineVars, serverVars, planVars, sourceVars, queryVars, scopeVars, handleVars, deliveryVars, sinkVars>>

Min(S) == CHOOSE x \in S : \A y \in S : x <= y

\* The runtime tells the operator of progress: its input frontier moves up,
\* never beyond the time of the session nor that of a batch not yet pulled.
Progress(f) ==
    /\ input_frontier < f
    /\ f <= Min({handle.time} \cup {channel[i].cap : i \in 1..Len(channel)})
    /\ input_frontier' = f
    /\ UNCHANGED <<handle, channel, notificator, eids, current, nxt, output, arrived>>
    /\ UNCHANGED <<domainVars, pipelineVars, serverVars, planVars, sourceVars, queryVars, scopeVars, handleVars, deliveryVars, sinkVars>>

\* The body of `for ((eid, v), t, _) in tuples.drain(..)` for one tuple u of a
\* batch whose capability is for time cap, on st = [nxt, eids, interest].
Propose(st, cap, u) ==
    LET entry == IF u.e \in DOMAIN st.nxt THEN st.nxt[u.e] ELSE [t |-> cap, v |-> u.v]
        inserted == Insert(st.nxt, u.e, entry)
    IN  IF entry.t <= u.t
        THEN [nxt |-> Insert(inserted, u.e, [t |-> u.t, v |-> u.v]),
              eids |-> Insert(st.eids, u.t,
                              (IF u.t \in DOMAIN st.eids THEN st.eids[u.t] ELSE {}) \cup {u.e}),
              interest |-> TRUE]
        ELSE [st EXCEPT !.nxt = inserted]

RECURSIVE ProposeFrom(_, _, _, _)
ProposeFrom(st, cap, data, i) ==
    IF i > Len(data) THEN st
    ELSE ProposeFrom(Propose(st, cap, data[i]), cap, data, i + 1)

\* One turn of `while let Some((cap, data)) = input.next()` on
\* st = [nxt, eids, notificator].
Receive(st, batch) ==
    LET r == ProposeFrom([nxt |-> st.nxt, eids |-> st.eids, interest |-> FALSE],
                         batch.cap, batch.data, 1)
    IN  [nxt |-> r.nxt, eids |-> r.eids,
         notificator |-> IF r.interest THEN st.notificator \cup {batch.cap}
                         ELSE st.notificator]

RECURSIVE ReceiveFrom(_, _, _, _)
ReceiveFrom(st, batches, i, k) ==
    IF i > k THEN st ELSE ReceiveFrom(Receive(st, batches[i]), batches, i + 1, k)

\* (mutant) the current value is dropped without a retraction.
Retraction_none(cur, eid, t) == <<>>

\* The retraction of the current value of eid, at the capability's time.
Retraction(cur, eid, t) ==
    IF eid \in DOMAIN cur
    THEN <<[e |-> eid, v |-> cur[eid], t |-> t, diff |-> -1]>>
    ELSE <<>>

\* The assertion of the next value of eid, at the capability's time.
Assertion(pending, eid, t) ==
    IF eid \in DOMAIN pending
    THEN <<[e |-> eid, v |-> pending[eid].v, t |-> t, diff |-> 1]>>
    ELSE <<>>

\* The body of `for eid in eids.drain()` on st = [current, nxt, output].
NotifyEid(st, eid, t) ==
    [current |-> IF eid \in DOMAIN st.nxt
                 THEN Insert(st.current, eid, st.nxt[eid].v)
                 ELSE Remove(st.current, eid),
     nxt |-> Remove(st.nxt, eid),
     output |-> st.output \o Retraction(st.current, eid, t) \o Assertion(st.nxt, eid, t)]

\* The eids of one time are independent of each other: every order of the
\* HashSet's drain leaves the same maps and the same updates of each eid.
RECURSIVE NotifyEids(_, _, _)
NotifyEids(st, S, t) ==
    IF S = {} THEN st
    ELSE LET eid == CHOOSE x \in S : TRUE
         IN  NotifyEids(NotifyEid(st, eid, t), S \ {eid}, t)

\* The closure of notificator.for_each for the capability of time t, on
\* st = [eids, current, nxt, output].
Notify(st, t) ==
    IF t \in DOMAIN st.eids
    THEN LET r == NotifyEids([current |-> st.current, nxt |-> st.nxt, output |-> st.output],
                             st.eids[t], t)
         IN  [eids |-> Remove(st.eids, t), current |-> r.current, nxt |-> r.nxt,
              output |-> r.output]
    ELSE st

\* notificator.for_each delivers the available times in increasing order.
RECURSIVE NotifyAll(_, _)
NotifyAll(st, times) ==
    IF times = {} THEN st
    ELSE LET t == Min(times) IN NotifyAll(Notify(st, t), times \ {t})

\* The times of the notificator the frontier has passed.
Available(pending, f) == {t \in pending : ~(f <= t)}

RECURSIVE Concat(_, _, _)
Concat(batches, i, k) ==
    IF i > k THEN <<>> ELSE batches[i].data \o Concat(batches, i + 1, k)

\* One activation of the operator: it pulls the first k batches of its
\* input, then delivers the notifications its frontier allows.
Activate(k) ==
    LET r == ReceiveFrom([nxt |-> nxt, eids |-> eids, notificator |-> notificator],
                         channel, 1, k)
        ready == Available(r.notificator, input_frontier)
        n == NotifyAll([eids |-> r.eids, current |-> current, nxt |-> r.nxt,
                        output |-> output], ready)
    IN  /\ semantics = "CardinalityOne"
        /\ k > 0 \/ ready # {}
        /\ channel' = SubSeq(channel, k + 1, Len(channel))
        /\ arrived' = arrived \o Concat(channel, 1, k)
        /\ notificator' = r.notificator \ ready
        /\ eids' = n.eids
        /\ current' = n.current
        /\ nxt' = n.nxt
        /\ output' = n.output
        /\ UNCHANGED <<handle, input_frontier>>
        /\ UNCHANGED <<domainVars, pipelineVars, serverVars, planVars, sourceVars, queryVars, scopeVars, handleVars, deliveryVars, sinkVars>>

OperatorNext ==
    \/ \E e \in Eids, v \in Values, op \in Diffs : Update(e, v, op)
    \/ \E next \in 1..MaxTime : Flush(next)
    \/ \E f \in 1..MaxTime : Progress(f)
    \/ \E k \in 0..Len(channel) : Activate(k)

\* ================================================ the attribute's pipeline
\* create_attribute builds `tuples` from the collection of the ingest session
\* according to the input semantics, then one index from tuples and one from
\* tuples with (e, v) swapped. `output` holds the updates of tuples.
PipelineInit(s) ==
    /\ semantics = s
    /\ forward_trace = <<>>
    /\ reverse_trace = <<>>

\* InputSemantics::Raw => tuples: the batches of the session are the
\* updates of tuples.
RawTuples(k) ==
    /\ semantics = "Raw"
    /\ channel' = SubSeq(channel, k + 1, Len(channel))
    /\ arrived' = arrived \o Concat(channel, 1, k)
    /\ output' = output \o Concat(channel, 1, k)
    /\ UNCHANGED <<handle, input_frontier, notificator, eids, current, nxt>>
    /\ UNCHANGED <<domainVars, pipelineVars, serverVars, planVars, sourceVars, queryVars, scopeVars, handleVars, deliveryVars, sinkVars>>

\* Sum of the diffs of the updates of (e, v) in `updates` at times up to t.
RECURSIVE Count(_, _, _, _, _)
Count(updates, e, v, t, i) ==
    IF i > Len(updates) THEN 0
    ELSE (IF updates[i].e = e /\ updates[i].v = v /\ updates[i].t <= t
          THEN updates[i].diff ELSE 0) + Count(updates, e, v, t, i + 1)

\* distinct(): one occurrence of each (e, v) the input holds.
Threshold(count) == IF count > 0 THEN 1 ELSE 0

\* What distinct() still has to emit for (e, v) at time t, given its input
\* `ins` and what it has emitted, `outs`.
Correction(ins, outs, e, v, t) ==
    LET d == Threshold(Count(ins, e, v, t, 1)) - Count(outs, e, v, t, 1)
    IN  IF d = 0 THEN <<>> ELSE <<[e |-> e, v |-> v, t |-> t, diff |-> d]>>

RECURSIVE CorrectionsAt(_, _, _, _)
CorrectionsAt(ins, outs, pairs, t) ==
    IF pairs = {} THEN <<>>
    ELSE LET p == CHOOSE x \in pairs : TRUE
         IN  Correction(ins, outs, p[1], p[2], t)
                 \o CorrectionsAt(ins, outs, pairs \ {p}, t)

\* distinct() brings its output up to date for the times from t up to, and
\* not including, the frontier f, in increasing order.
RECURSIVE Corrections(_, _, _, _)
Corrections(ins, outs, t, f) ==
    IF t >= f THEN <<>>
    ELSE LET now == CorrectionsAt(ins, outs, Eids \X Values, t)
         IN  now \o Corrections(ins, outs \o now, t + 1, f)

\* InputSemantics::CardinalityMany => tuples.distinct(): one activation of
\* the operator pulls the first k batches of its input and emits the changes
\* of the times its frontier has passed.
Distinct(k) ==
    LET ins == arrived \o Concat(channel, 1, k)
        outs == Corrections(ins, output, 0, input_frontier)
    IN  /\ semantics = "CardinalityMany"
        /\ k > 0 \/ outs # <<>>
        /\ channel' = SubSeq(channel, k + 1, Len(channel))
        /\ arrived' = ins
        /\ output' = output \o outs
        /\ UNCHANGED <<handle, input_frontier, notificator, eids, current, nxt>>
        /\ UNCHANGED <<domainVars, pipelineVars, serverVars, planVars, sourceVars, queryVars, scopeVars, handleVars, deliveryVars, sinkVars>>

\* (mutant) the reverse index takes every update for an assertion.
Swap_asserting(u) == [k |-> u.v, v |-> u.e, t |-> u.t, diff |-> 1]

\* tuples.map(|(e, v)| (v, e))
Swap(u) == [k |-> u.v, v |-> u.e, t |-> u.t, diff |-> u.diff]

\* The collection CollectionIndex::index arranges for the forward index.
Keyed(u) == [k |-> u.e, v |-> u.v, t |-> u.t, diff |-> u.diff]

RECURSIVE ForwardFrom(_, _)
ForwardFrom(updates, i) ==
    IF i > Len(updates) THEN <<>> ELSE <<Keyed(updates[i])>> \o ForwardFrom(updates, i + 1)

RECURSIVE ReverseFrom(_, _)
ReverseFrom(updates, i) ==
    IF i > Len(updates) THEN <<>> ELSE <<Swap(updates[i])>> \o ReverseFrom(updates, i + 1)

\* CollectionIndex::index(name, &tuples): the arrangement of the forward
\* index takes in the updates of tuples it has not seen.
ArrangeForward ==
    /\ Len(forward_trace) < Len(output)
    /\ forward_trace' = forward_trace \o ForwardFrom(output, Len(forward_trace) + 1)
    /\ UNCHANGED <<semantics, reverse_trace>>
    /\ UNCHANGED <<domainVars, operatorVars, serverVars, planVars, sourceVars, queryVars, scopeVars, handleVars, deliveryVars, sinkVars>>

\* CollectionIndex::index(name, &tuples.map(|(e, v)| (v, e)))
ArrangeReverse ==
    /\ Len(reverse_trace) < Len(output)
    /\ reverse_trace' = reverse_trace \o ReverseFrom(output, Len(reverse_trace) + 1)
    /\ UNCHANGED <<semantics, forward_trace>>
    /\ UNCHANGED <<domainVars, operatorVars, serverVars, planVars, sourceVars, queryVars, scopeVars, handleVars, deliveryVars, sinkVars>>

PipelineNext ==
    \/ \E e \in Eids, v \in Values, op \in Diffs : Update(e, v, op)
    \/ \E next \in 1..MaxTime : Flush(next)
    \/ \E f \in 1..MaxTime : Progress(f)
    \/ \E k \in 0..Len(channel) : Activate(k)
    \/ \E k \in 1..Len(channel) : RawTuples(k)
    \/ \E k \in 0..Len(channel) : Distinct(k)
    \/ ArrangeForward
    \/ ArrangeReverse

\* ======================================================= the server worker
\* The event loop of main() on one worker: the poll events (connections,
\* RESULTS, ERRORS), then the commands of the sequencer, request by request.
\* Every worker takes every command from the sequencer; a command names the
\* worker that received it (owner) and the key of the client's connection in
\* that worker's slab (client). Requests modelled: Register, Interest,
\* Uninterest, CreateAttribute and AdvanceDomain.

\* Most connections a worker holds at once (ws_settings.max_connections).
MaxConnections == 2
\* Most commands the worker takes from the sequencer in a run.
MaxCommands == 2
\* Most requests one command carries.
MaxRequests == 2
\* Most batches of results waiting in the results channel.
MaxQueued == 1
\* Most errors of malformed input waiting in the errors channel.
MaxErrors == 2
\* Largest multiplicity of the relation's tuple.
MaxContents == 2

\* The workers of the computation, and worker.index() of the modelled one.
Workers == {0, 1}
WorkerIndex == 0

\* The keys of the connections slab, as Tokens.
Tokens == 0..(MaxConnections - 1)
\* const SYSTEM: Token = Token(usize::MAX - 4)
SYSTEM == (Modulus - 1) - 4
Clients == Tokens \cup {SYSTEM}

\* The attribute the requests create, and the configuration CreateAttribute
\* carries.
ServerAids == {"a"}
ServerConfig == [input_semantics |-> "Raw", trace_slack |-> None]
\* The traces CollectionIndex::import returns a shutdown button for.
Traces == {"count", "propose", "validate"}

Req(kind, name, next) == [kind |-> kind, name |-> name, next |-> next]

Requests ==
    {Req(k, n, 0) : k \in {"Register", "Interest", "Uninterest"}, n \in RelNames}
        \cup {Req("CreateAttribute", a, 0) : a \in ServerAids}
        \cup {Req("AdvanceDomain", "", t) : t \in {0, MaxTime}}

\* No command is being handled.
Idle == [taken |-> FALSE, owner |-> 0, client |-> 0, time |-> 0, requests |-> <<>>]

NoSnapshot == [some |-> FALSE, kind |-> "none"]

ServerInit(manual) ==
    /\ manual_advance = manual
    /\ next_tx = 0
    /\ command = Idle
    /\ rules = {}
    /\ interests = EmptyMap
    /\ shutdown_handles = EmptyMap
    /\ live_buttons = {}
    /\ compiled = 0
    /\ connections = {}
    /\ slab_free = <<>>
    /\ registration = [results |-> "RESULTS", errors |-> "ERRORS", cli |-> "CLI"]
    /\ recv_results = <<>>
    /\ recv_errors = <<>>
    /\ sent = [event |-> "none", seq |-> 0, results |-> {}, errors |-> {}]
    /\ subscribers = {}
    /\ before = NoSnapshot
    /\ contents = 0
    /\ emitted = 0
    /\ result_diffs = <<>>
    /\ delivered = [t \in Tokens |-> 0]
    /\ sinks = {}

\* What the requests of a command leave alone unless they name it.
sessionVars == <<rules, interests, shutdown_handles, live_buttons, compiled, subscribers>>
ioVars == <<connections, slab_free, registration, recv_results, sent>>
domainData == <<now_at, input_sessions, attributes, forward, reverse, relations,
                arrangements, last>>

\* ------------------------------------------------------ connection events
\* connections.vacant_entry().key(): the key vacated last, or else the next
\* key never used.
VacantKey == IF slab_free # <<>> THEN Head(slab_free)
             ELSE Cardinality(connections)

\* SERVER event: a client connects and gets the vacant key as its token.
Connect ==
    /\ ~panicked
    /\ ~command.taken
    /\ Cardinality(connections) < MaxConnections
    /\ connections' = connections \cup {VacantKey}
    /\ slab_free' = IF slab_free # <<>> THEN Tail(slab_free) ELSE slab_free
    /\ UNCHANGED <<manual_advance, next_tx, command, sessionVars, before, registration,
                   recv_results, recv_errors, sent>>
    /\ UNCHANGED <<domainVars, operatorVars, pipelineVars, planVars, sourceVars, queryVars, scopeVars, handleVars, deliveryVars, sinkVars>>

\* Connection event that finds the connection inactive:
\* connections.remove(token.into()). The client is gone, and with it what it
\* had asked of this worker.
Disconnect(token) ==
    /\ ~panicked
    /\ ~command.taken
    /\ token \in connections
    /\ connections' = connections \ {token}
    /\ slab_free' = <<token>> \o slab_free
    /\ subscribers' = {IF c.owner = WorkerIndex /\ c.client = token
                       THEN [c EXCEPT !.gone = TRUE] ELSE c : c \in subscribers}
    /\ UNCHANGED <<manual_advance, next_tx, command, rules, interests, shutdown_handles,
                   live_buttons, compiled, before, registration, recv_results,
                   recv_errors, sent>>
    /\ UNCHANGED <<domainVars, operatorVars, pipelineVars, planVars, sourceVars, queryVars, scopeVars, handleVars, deliveryVars, sinkVars>>

\* --------------------------------------------------------- the commands
\* while let Some(mut command) = sequencer.next(): the sequence number is
\* counted up and the domain's time is read, once for the whole command.
TakeCommand(owner, client, requests) ==
    /\ ~panicked
    /\ ~command.taken
    /\ next_tx < MaxCommands
    /\ next_tx' = next_tx + 1
    /\ command' = [taken |-> TRUE, owner |-> owner, client |-> client, time |-> now_at,
                   requests |-> requests]
    /\ UNCHANGED <<manual_advance, sessionVars, before, ioVars, recv_errors>>
    /\ UNCHANGED <<domainVars, operatorVars, pipelineVars, planVars, sourceVars, queryVars, scopeVars, handleVars, deliveryVars, sinkVars>>

\* send_errors.send((vec![Token(client)], vec![(error, time.clone())]))
SendError(queue, error) ==
    Append(queue, [tokens |-> {command.client}, error |-> error, time |-> command.time,
                   owner |-> command.owner])

\* The errors channel after a call on the domain has returned `result`.
ErrorsAfter(result) ==
    IF result \in {Ok, Panic} THEN recv_errors ELSE SendError(recv_errors, result)

\* The request the loop handles next.
Request == Head(command.requests)

\* The request is of the given kind; handling it takes it off the command.
Handling(kind) ==
    /\ ~panicked
    /\ command.taken
    /\ command.requests # <<>>
    /\ Request.kind = kind
    /\ command' = [command EXCEPT !.requests = Tail(@)]

\* The client of the command as a subscriber of the relation.
Subscriber(name, gone) ==
    [owner |-> command.owner, client |-> command.client, name |-> name, gone |-> gone]

\* The record of a request of the given kind, as it is handled: who issued
\* it and whether the issuer's token was in the interest set of the name.
Handled(kind, name) ==
    [some |-> FALSE, kind |-> kind, name |-> name,
     owner |-> command.owner, client |-> command.client,
     held |-> name \in DOMAIN interests /\ command.client \in interests[name]]

\* Request::Register: Server::register adds the rule to the context and
\* compiles nothing.
Request_Register ==
    /\ Handling("Register")
    /\ rules' = rules \cup {Request.name}
    /\ before' = Handled("Register", Request.name)
    /\ UNCHANGED <<manual_advance, next_tx, interests, shutdown_handles, live_buttons,
                   compiled, subscribers, ioVars, recv_errors>>
    /\ UNCHANGED <<domainVars, operatorVars, pipelineVars, planVars, sourceVars, queryVars, scopeVars, handleVars, deliveryVars, sinkVars>>

\* (mutant) only one button of the handle is pressed.
Drop_first(buttons, live) ==
    IF buttons = {} THEN live ELSE live \ {CHOOSE b \in buttons : TRUE}

\* impl Drop for ShutdownHandle: every button of the handle is pressed.
Drop(buttons, live) == live \ buttons

\* (mutant) the token is not recorded.
Interested_not(ints, name, token) == ints

\* server.interests.entry(name).or_insert_with(HashSet::new).insert(token)
Interested(ints, name, token) ==
    Insert(ints, name, (IF name \in DOMAIN ints THEN ints[name] ELSE {}) \cup {token})

\* server.context.global_arrangement(name).is_none()
NotArranged(name) == name \notin DOMAIN arrangements

\* The shutdown buttons of the dataflow compiled as number id for the
\* relation name, whose results go to the worker owner: one button for each
\* trace of the index the plan imports.
Buttons(name, owner, id) ==
    {[name |-> name, owner |-> owner, id |-> id, trace |-> tr] : tr \in Traces}

\* Server::interest(name, scope) on the maps of the server: the rule and its
\* dependencies are collected (an unknown rule is an error), the dataflow is
\* compiled and its shutdown handle is kept under the name, which drops the
\* handle kept there before.
Interest(name, owner) ==
    IF name \notin rules
    THEN [result |-> Err(NotFound), shutdown_handles |-> shutdown_handles,
          live_buttons |-> live_buttons, compiled |-> compiled]
    ELSE LET shutdown_handle == Buttons(name, owner, compiled)
             old == IF name \in DOMAIN shutdown_handles THEN shutdown_handles[name] ELSE {}
         IN  [result |-> Ok,
              shutdown_handles |-> Insert(shutdown_handles, name, shutdown_handle),
              live_buttons |-> Drop(old, live_buttons) \cup shutdown_handle,
              compiled |-> compiled + 1]

\* The record of an Interest, with the maps of the server and of the domain
\* as they are before it.
Snapshot(name) ==
    [some |-> TRUE, kind |-> "Interest", name |-> name,
     owner |-> command.owner, client |-> command.client,
     held |-> name \in DOMAIN interests /\ command.client \in interests[name],
     registered |-> name \in rules,
     live |-> {b \in live_buttons : b.name = name},
     interests |-> interests, shutdown_handles |-> shutdown_handles,
     relations |-> relations, arrangements |-> arrangements]

\* Request::Interest: the token is recorded first; the relation is compiled
\* unless an arrangement of its name exists; an error of the compilation is
\* sent to the client.
Request_Interest ==
    /\ Handling("Interest")
    /\ LET name == Request.name
           r == IF NotArranged(name) THEN Interest(name, command.owner)
                ELSE [result |-> Ok, shutdown_handles |-> shutdown_handles,
                      live_buttons |-> live_buttons, compiled |-> compiled]
       IN  /\ interests' = Interested(interests, name, command.client)
           /\ shutdown_handles' = r.shutdown_handles
           /\ live_buttons' = r.live_buttons
           /\ compiled' = r.compiled
           /\ recv_errors' = ErrorsAfter(r.result)
           /\ subscribers' = subscribers \cup {Subscriber(name, FALSE)}
           /\ before' = Snapshot(name)
           /\ emitted' = IF NotArranged(name) /\ r.result = Ok THEN 0 ELSE emitted
    /\ UNCHANGED <<manual_advance, next_tx, rules, ioVars, contents, result_diffs, delivered>>
    /\ UNCHANGED <<domainVars, operatorVars, pipelineVars, planVars, sourceVars, queryVars, scopeVars, handleVars, sinkVars>>

\* (mutant) the relation is torn down whoever else is interested.
LastWithdrawn_always(entry) == TRUE

\* entry.is_empty()
LastWithdrawn(entry) == entry = {}

\* Request::Uninterest
Request_Uninterest ==
    /\ Handling("Uninterest")
    /\ LET name == Request.name
       IN  /\ IF name \in DOMAIN interests
              THEN LET entry == interests[name] \ {command.client}
                   IN  IF LastWithdrawn(entry)
                       THEN /\ interests' = Remove(interests, name)
                            /\ shutdown_handles' = Remove(shutdown_handles, name)
                            /\ live_buttons' =
                                   IF name \in DOMAIN shutdown_handles
                                   THEN Drop(shutdown_handles[name], live_buttons)
                                   ELSE live_buttons
                       ELSE /\ interests' = Insert(interests, name, entry)
                            /\ UNCHANGED <<shutdown_handles, live_buttons>>
              ELSE UNCHANGED <<interests, shutdown_handles, live_buttons>>
           /\ subscribers' = subscribers \ {Subscriber(name, gone) : gone \in BOOLEAN}
    /\ before' = Handled("Uninterest", Request.name)
    /\ UNCHANGED <<manual_advance, next_tx, rules, compiled, ioVars, recv_errors>>
    /\ UNCHANGED <<domainVars, operatorVars, pipelineVars, planVars, sourceVars, queryVars, scopeVars, handleVars, deliveryVars, sinkVars>>

\* Request::CreateAttribute
Request_CreateAttribute ==
    /\ Handling("CreateAttribute")
    /\ create_attribute(Request.name, ServerConfig)
    /\ recv_errors' = ErrorsAfter(last'.result)
    /\ before' = Handled("CreateAttribute", Request.name)
    /\ UNCHANGED <<manual_advance, next_tx, sessionVars, ioVars>>

\* Server::advance_domain(None, next): the domain of the server advances.
advance_domain(next) == advance_to(next)

\* Request::AdvanceDomain
Request_AdvanceDomain ==
    /\ Handling("AdvanceDomain")
    /\ advance_domain(Request.next)
    /\ recv_errors' = ErrorsAfter(last'.result)
    /\ before' = Handled("AdvanceDomain", Request.name)
    /\ UNCHANGED <<manual_advance, next_tx, sessionVars, ioVars>>

\* The end of the loop's body for one command: unless manual_advance is
\* set, the domain is advanced to next_tx.
FinishCommand ==
    /\ ~panicked
    /\ command.taken
    /\ command.requests = <<>>
    /\ command' = Idle
    /\ IF ~manual_advance
       THEN /\ advance_domain(next_tx)
            /\ recv_errors' = ErrorsAfter(last'.result)
       ELSE /\ UNCHANGED <<domainVars, operatorVars, pipelineVars, planVars, sourceVars, queryVars, scopeVars, handleVars, deliveryVars, sinkVars>>
            /\ UNCHANGED recv_errors
    /\ UNCHANGED <<manual_advance, next_tx, sessionVars, before, ioVars>>

\* ----------------------------------------------------- results and errors
\* The ResultsRecv operator of a live dataflow of the relation, on the worker
\* its exchange pact routes to: it sends a batch to the results channel, with
\* the diffs the dataflow has produced since its last batch (a dataflow
\* compiled late produces the relation's contents first).
ResultsRecv(name) ==
    /\ ~panicked
    /\ ~command.taken
    /\ \E b \in live_buttons : b.name = name /\ b.owner = WorkerIndex
    /\ Len(recv_results) < MaxQueued
    /\ recv_results' = Append(recv_results, name)
    /\ result_diffs' = Append(result_diffs, contents - emitted)
    /\ emitted' = contents
    /\ UNCHANGED <<manual_advance, next_tx, command, sessionVars, before, connections,
                   slab_free, registration, recv_errors, sent, contents, delivered>>
    /\ UNCHANGED <<domainVars, operatorVars, pipelineVars, planVars, sourceVars, queryVars, scopeVars, handleVars, sinkVars>>

\* The inputs of the relation have changed and the domain has advanced: the
\* relation's contents at the new time are n.
Transacted(n) ==
    /\ ~panicked
    /\ ~command.taken
    /\ rules # {}
    /\ n # contents
    /\ contents' = n
    /\ UNCHANGED <<emitted, result_diffs, delivered>>
    /\ UNCHANGED <<domainVars, operatorVars, pipelineVars, serverVars, planVars, sourceVars, queryVars, scopeVars, handleVars, sinkVars>>

\* The diffs of the batches i.. of the results channel that the RESULTS event
\* sends on the connection of the token.
RECURSIVE Forwarded(_, _)
Forwarded(token, i) ==
    IF i > Len(recv_results) THEN 0
    ELSE (IF /\ recv_results[i] \in DOMAIN interests
             /\ token \in interests[recv_results[i]]
          THEN result_diffs[i] ELSE 0) + Forwarded(token, i + 1)

\* What an event records of the frames it sent.
Sent(event, results, errors) ==
    [event |-> event, seq |-> 1 - sent.seq, results |-> results, errors |-> errors]

\* The frames the RESULTS event sends for the batches in the channel: one to
\* every token interested in the batch's relation.
ResultFrames ==
    UNION {{[conn |-> t, name |-> recv_results[i]] : t \in interests[recv_results[i]]} :
              i \in {j \in 1..Len(recv_results) : recv_results[j] \in DOMAIN interests}}

\* connections[token.into()]: the slab panics on a key that is not occupied.
Vacant(frames) == {f \in frames : f.conn \notin connections}

\* RESULTS event: the channel is drained and registered again. A frame for a
\* vacant key panics; the tokens of an interest set come in any order, so any
\* of the other frames may have been sent by then.
RESULTS ==
    /\ ~panicked
    /\ ~command.taken
    /\ registration.results = "RESULTS"
    /\ recv_results # <<>>
    /\ recv_results' = <<>>
    /\ IF Vacant(ResultFrames) # {}
       THEN /\ panicked' = TRUE
            /\ \E done \in SUBSET (ResultFrames \ Vacant(ResultFrames)) :
                  sent' = Sent("RESULTS", done, {})
            /\ UNCHANGED delivered
       ELSE /\ sent' = Sent("RESULTS", ResultFrames, {})
            /\ delivered' = [t \in Tokens |-> delivered[t] + Forwarded(t, 1)]
            /\ UNCHANGED panicked
    /\ result_diffs' = <<>>
    /\ UNCHANGED <<manual_advance, next_tx, command, sessionVars, before, connections,
                   slab_free, registration, recv_errors, contents, emitted>>
    /\ UNCHANGED <<domainData, operatorVars, pipelineVars, planVars, sourceVars, queryVars, scopeVars, handleVars, sinkVars>>

\* The frames the ERRORS event sends for the errors in the channel.
ErrorFrames ==
    UNION {{[conn |-> t, error |-> recv_errors[i].error, time |-> recv_errors[i].time,
             owner |-> recv_errors[i].owner] : t \in recv_errors[i].tokens} :
              i \in 1..Len(recv_errors)}

\* ERRORS event, raised by the channel `source` that is registered with the
\* token ERRORS and readable. The errors channel is drained; the handler then
\* registers the results channel, not the errors channel, with the token
\* ERRORS (the registrations are one-shot).
ERRORS(source) ==
    /\ ~panicked
    /\ ~command.taken
    /\ \/ source = "errors" /\ registration.errors = "ERRORS" /\ recv_errors # <<>>
       \/ source = "results" /\ registration.results = "ERRORS" /\ recv_results # <<>>
    /\ recv_errors' = <<>>
    /\ IF Vacant(ErrorFrames) # {}
       THEN /\ panicked' = TRUE
            /\ \E done \in SUBSET (ErrorFrames \ Vacant(ErrorFrames)) :
                  sent' = Sent("ERRORS", {}, done)
            /\ UNCHANGED registration
       ELSE /\ sent' = Sent("ERRORS", {}, ErrorFrames)
            /\ registration' =
                   [results |-> "ERRORS",
                    errors |-> IF source = "errors" THEN "none" ELSE registration.errors,
                    cli |-> registration.cli]
            /\ UNCHANGED panicked
    /\ UNCHANGED <<manual_advance, next_tx, command, sessionVars, before, connections,
                   slab_free, recv_results>>
    /\ UNCHANGED <<domainData, operatorVars, pipelineVars, planVars, sourceVars, queryVars, scopeVars, handleVars, deliveryVars, sinkVars>>

\* A command of this worker's own clients comes from a connection of the
\* slab (Token(client) is the connection's key); the system client and the
\* clients of the other workers have no connection here.
Issued(owner, client) ==
    (owner = WorkerIndex /\ client # SYSTEM) => client \in connections

\* ------------------------------------------------------ malformed input
Incorrect == "df.error.category/incorrect"

\* (mutant) the time sent is next_tx.
PreviousTx_same(tx, checked) == [panics |-> FALSE, time |-> tx]

\* next_tx - 1 on u64: with next_tx = 0 the subtraction panics in a build
\* that checks arithmetic overflow and wraps otherwise.
PreviousTx(tx, checked) ==
    [panics |-> tx = 0 /\ checked, time |-> (tx - 1) % Modulus]

\* The record of an input that did not parse, and who sent it.
Rejected(sender) ==
    [some |-> FALSE, kind |-> "Malformed", name |-> "", owner |-> WorkerIndex,
     client |-> sender, held |-> FALSE]

\* serde_json::from_str::<Vec<Request>>(..) returns Err: nothing is pushed to
\* the sequencer; an error goes to the errors channel for `tokens`, with the
\* time next_tx - 1.
Malformed(sender, tokens) ==
    /\ ~panicked
    /\ ~command.taken
    /\ Len(recv_errors) < MaxErrors
    /\ \E checked \in BOOLEAN :
          LET previous == PreviousTx(next_tx, checked)
          IN  IF previous.panics
              THEN /\ panicked' = TRUE
                   /\ UNCHANGED recv_errors
              ELSE /\ recv_errors' = Append(recv_errors,
                          [tokens |-> tokens, error |-> Incorrect, time |-> previous.time,
                           owner |-> WorkerIndex])
                   /\ UNCHANGED panicked
    /\ before' = Rejected(sender)
    /\ UNCHANGED <<manual_advance, next_tx, command, sessionVars, ioVars>>
    /\ UNCHANGED <<domainData, operatorVars, pipelineVars, planVars, sourceVars, queryVars, scopeVars, handleVars, deliveryVars, sinkVars>>

\* ConnEvent::Message whose text does not parse: send_errors.send((vec![token], ..))
Message_Malformed(token) ==
    /\ token \in connections
    /\ Malformed(token, {token})

\* CLI event whose line does not parse: send_errors.send((vec![], ..)); the
\* cli channel is registered again with the token CLI.
CLI_Malformed ==
    /\ ~command.taken
    /\ registration.cli = "CLI"
    /\ Malformed(SYSTEM, {})

\* The worker's loop for clients whose input may be malformed; the commands
\* that do parse carry no request.
IngressNext ==
    \/ Connect
    \/ \E token \in Tokens : Disconnect(token)
    \/ \E token \in Tokens : Message_Malformed(token)
    \/ CLI_Malformed
    \/ \E owner \in Workers, client \in Clients :
          Issued(owner, client) /\ TakeCommand(owner, client, <<>>)
    \/ FinishCommand
    \/ \E source \in {"errors", "results"} : ERRORS(source)

\* The sinks the requests name.
SinkNames == {"out"}

\* Request::Flow(source, sink)
Flow(source, sink) == [kind |-> "Flow", name |-> source, next |-> 0, sink |-> sink]

\* Request::RegisterSink: Server::register_sink puts the sink's input handle
\* into the sinks of the domain, under the sink's name.
Request_RegisterSink ==
    /\ Handling("RegisterSink")
    /\ sinks' = sinks \cup {Request.name}
    /\ before' = Handled("RegisterSink", Request.name)
    /\ UNCHANGED <<manual_advance, next_tx, sessionVars, ioVars, recv_errors>>
    /\ UNCHANGED <<domainVars, operatorVars, pipelineVars, planVars, sourceVars, queryVars, scopeVars, handleVars, deliveryVars>>

\* Request::Flow: the sink is taken out of the domain's sinks; without it the
\* request ends with a not-found error; with it the source is compiled, and
\* an error of the compilation is sent to the client.
Request_Flow ==
    /\ Handling("Flow")
    /\ sinks' = sinks \ {Request.sink}
    /\ IF Request.sink \notin sinks
       THEN /\ recv_errors' = SendError(recv_errors, NotFound)
            /\ UNCHANGED <<shutdown_handles, live_buttons, compiled>>
       ELSE LET r == Interest(Request.name, command.owner)
            IN  /\ shutdown_handles' = r.shutdown_handles
                /\ live_buttons' = r.live_buttons
                /\ compiled' = r.compiled
                /\ recv_errors' = ErrorsAfter(r.result)
    /\ before' = Handled("Flow", Request.name)
    /\ UNCHANGED <<manual_advance, next_tx, rules, interests, subscribers, ioVars>>
    /\ UNCHANGED <<domainVars, operatorVars, pipelineVars, planVars, sourceVars, queryVars, scopeVars, handleVars, deliveryVars>>

\* The requests of clients that register rules and sinks and connect them.
FlowRequests ==
    {Req("Register", n, 0) : n \in RelNames}
        \cup {Req("RegisterSink", k, 0) : k \in SinkNames}
        \cup {Flow(n, k) : n \in RelNames, k \in SinkNames}

\* The worker's loop for commands that register rules and sinks and connect
\* them.
FlowNext ==
    \/ \E owner \in Workers, client \in Clients,
          requests \in SeqsUpTo(FlowRequests, MaxRequests) :
          TakeCommand(owner, client, requests)
    \/ Request_Register
    \/ Request_RegisterSink
    \/ Request_Flow
    \/ FinishCommand

\* The requests of a client that registers a rule and subscribes to it.
Subscription == <<Req("Register", "r", 0), Req("Interest", "r", 0)>>

\* The loop's body for the command in hand: its next request is handled, or
\* the command ends.
HandleCommand ==
    \/ Request_Register
    \/ Request_Interest
    \/ FinishCommand

\* The worker's loop for connected clients that subscribe and send malformed
\* input, with the events of the three channels.
EventsNext ==
    \/ Connect
    \/ \E token \in Tokens : Message_Malformed(token)
    \/ CLI_Malformed
    \/ \E client \in Tokens :
          Issued(WorkerIndex, client) /\ TakeCommand(WorkerIndex, client, Subscription)
    \/ HandleCommand
    \/ \E name \in RelNames : ResultsRecv(name)
    \/ RESULTS
    \/ \E source \in {"errors", "results"} : ERRORS(source)

\* The worker's loop for clients of any worker that subscribe to the
\* relation while its contents change.
DeliveryNext ==
    \/ Connect
    \/ \E owner \in Workers, client \in Tokens :
          Issued(owner, client) /\ TakeCommand(owner, client, Subscription)
    \/ HandleCommand
    \/ \E n \in 0..MaxContents : Transacted(n)
    \/ \E name \in RelNames : ResultsRecv(name)
    \/ RESULTS

\* The requests that call on the domain's clock, and the others.
ClockRequests == {r \in Requests : r.kind = "AdvanceDomain"}
SessionRequests == Requests \ ClockRequests

\* The commands of the sequencer, as every worker handles them.
CommandNext ==
    \/ \E owner \in Workers, client \in Clients, requests \in SeqsUpTo(Requests, MaxRequests) :
          TakeCommand(owner, client, requests)
    \/ Request_Register
    \/ Request_Interest
    \/ Request_Uninterest
    \/ Request_CreateAttribute
    \/ Request_AdvanceDomain
    \/ FinishCommand

\* The whole loop of the worker, for commands that leave the clock to the
\* loop.
ServerNext ==
    \/ Connect
    \/ \E token \in Tokens : Disconnect(token)
    \/ \E owner \in Workers, client \in Clients,
          requests \in SeqsUpTo(SessionRequests, MaxRequests) :
          Issued(owner, client) /\ TakeCommand(owner, client, requests)
    \/ Request_Register
    \/ Request_Interest
    \/ Request_Uninterest
    \/ Request_CreateAttribute
    \/ FinishCommand
    \/ \E name \in RelNames : ResultsRecv(name)
    \/ RESULTS
    \/ \E source \in {"errors", "results"} : ERRORS(source)

\* ======================================================= planning a rule
\* implement (src/src/lib.rs) on a context of rules and attributes: the
\* dependencies are collected, the rules are put in name order and checked
\* for duplicates, and each rule's plan is lowered to operators.

\* Deepest nesting of the plans of a rule.
PlanDepth == 1

\* The names rules are registered and looked up under, in the order
\* String::cmp gives them.
PlanNames == <<"p", "q", "s">>
\* All rule names of the model, in that order.
RuleNames == <<"p", "q", "reach", "s">>
Rank(name) == CHOOSE i \in 1..Len(RuleNames) : RuleNames[i] = name

\* Plan: the variants the model lowers. A leaf has no sub-plan.
Leaf(variant, aid, name) ==
    [variant |-> variant, aid |-> aid, name |-> name, pull_attributes |-> <<>>,
     path_attributes |-> <<>>, plans |-> <<>>]
MatchA(aid) == Leaf("MatchA", aid, "")
RuleExpr(name) == Leaf("RuleExpr", "", name)
\* PullLevel { plan, pull_attributes, path_attributes }
PullLevel(plan, pull_attributes, path_attributes) ==
    [variant |-> "PullLevel", aid |-> "", name |-> "", pull_attributes |-> pull_attributes,
     path_attributes |-> path_attributes, plans |-> <<plan>>]
\* Pull { paths }
Pull(paths) ==
    [variant |-> "Pull", aid |-> "", name |-> "", pull_attributes |-> <<>>,
     path_attributes |-> <<>>, plans |-> paths]

\* Rule { name, plan }
Rule(name, plan) == [name |-> name, plan |-> plan]

\* Dependencies { names, attributes }: none, one rule name, one attribute.
NoDependencies == [names |-> <<>>, attributes |-> {}]
Dependencies_name(name) == [names |-> <<name>>, attributes |-> {}]
Dependencies_attribute(aid) == [names |-> <<>>, attributes |-> {aid}]

\* Implementable::dependencies. A RuleExpr depends on its rule and a data
\* pattern on its attribute (the pair of rule names and attribute Aids that
\* collect_dependencies reads); PullLevel and Pull report
\* Dependencies::none(), whatever they pull and whatever their sub-plans
\* depend on.
\* A plan over sub-plans (Project, Join, Union) depends on what they depend on.
RECURSIVE dependencies(_)
RECURSIVE Dependencies_merge(_, _)
Dependencies_merge(plans, i) ==
    IF i > Len(plans) THEN NoDependencies
    ELSE LET left == dependencies(plans[i])
             right == Dependencies_merge(plans, i + 1)
         IN  [names |-> left.names \o right.names,
              attributes |-> left.attributes \cup right.attributes]

dependencies(plan) ==
    CASE plan.variant = "MatchA" -> Dependencies_attribute(plan.aid)
      [] plan.variant = "MatchAV" -> Dependencies_attribute(plan.aid)
      [] plan.variant = "RuleExpr" -> Dependencies_name(plan.name)
      [] plan.variant = "PullLevel" -> NoDependencies
      [] plan.variant = "Pull" -> NoDependencies
      [] plan.variant \in {"Project", "Join", "Union"} -> Dependencies_merge(plan.plans, 1)

\* context.rule(name), context.has_attribute(aid), context.forward_index(aid)
rule(ctx, name) == IF name \in DOMAIN ctx.rules THEN <<ctx.rules[name]>> ELSE <<>>
has_attribute(ctx, aid) == aid \in ctx.attributes
forward_index(ctx, aid) == aid \in ctx.attributes

\* The loop of collect_dependencies over dependencies.names from position i:
\* a name not seen yet is looked up, marked as seen and its rule queued.
RECURSIVE Enqueue(_, _, _, _, _)
Enqueue(ctx, seen, queue, names, i) ==
    IF i > Len(names) THEN [found |-> TRUE, seen |-> seen, queue |-> queue]
    ELSE IF names[i] \in seen THEN Enqueue(ctx, seen, queue, names, i + 1)
    ELSE IF rule(ctx, names[i]) = <<>> THEN [found |-> FALSE, seen |-> seen, queue |-> queue]
    ELSE Enqueue(ctx, seen \cup {names[i]}, Append(queue, rule(ctx, names[i])[1]),
                 names, i + 1)

\* while let Some(next) = queue.pop_front() { .. }
RECURSIVE Collect(_, _, _, _)
Collect(ctx, seen, queue, rule_list) ==
    IF queue = <<>> THEN [result |-> Ok, rules |-> rule_list]
    ELSE LET next == Head(queue)
             deps == dependencies(next.plan)
             r == Enqueue(ctx, seen, Tail(queue), deps.names, 1)
         IN  IF ~r.found THEN [result |-> Err(NotFound), rules |-> <<>>]
             ELSE IF \E aid \in deps.attributes : ~has_attribute(ctx, aid)
             THEN [result |-> Err(NotFound), rules |-> <<>>]
             ELSE Collect(ctx, r.seen, r.queue, Append(rule_list, next))

\* for name in names { .. }: each name is looked up, marked as seen and its
\* rule queued, whether the name was seen before or not.
RECURSIVE Named(_, _, _, _, _)
Named(ctx, seen, queue, names, i) ==
    IF i > Len(names) THEN [found |-> TRUE, seen |-> seen, queue |-> queue]
    ELSE IF rule(ctx, names[i]) = <<>> THEN [found |-> FALSE, seen |-> seen, queue |-> queue]
    ELSE Named(ctx, seen \cup {names[i]}, Append(queue, rule(ctx, names[i])[1]), names, i + 1)

\* collect_dependencies(context, names)
collect_dependencies(ctx, names) ==
    LET named == Named(ctx, {}, <<>>, names, 1)
    IN  IF ~named.found THEN [result |-> Err(NotFound), rules |-> <<>>]
        ELSE Collect(ctx, named.seen, named.queue, <<>>)

\* rules.sort_by(|x, y| x.name.cmp(&y.name)): a stable sort.
RECURSIVE InsertByName(_, _)
InsertByName(sorted, r) ==
    IF sorted = <<>> THEN <<r>>
    ELSE IF Rank(r.name) < Rank(Head(sorted).name) THEN <<r>> \o sorted
    ELSE <<Head(sorted)>> \o InsertByName(Tail(sorted), r)

RECURSIVE SortByName(_, _)
SortByName(rule_list, i) ==
    IF i = 0 THEN <<>> ELSE InsertByName(SortByName(rule_list, i - 1), rule_list[i])

\* for index in 1..rules.len() - 1 { if rules[index].name == rules[index - 1].name ..
\* (the indices of the code count from 0: its index is position index + 1 here)
Duplicated(rule_list) ==
    \E index \in 1..((Len(rule_list) - 1) - 1) : rule_list[index + 1].name = rule_list[index].name

\* What lowering a plan has done: whether it panicked, and the operators it
\* had built by then.
Lowered(panics, operators) == [panics |-> panics, operators |-> operators]

\* Implementable::implement of a plan, on the local arrangements of the
\* rules (by name) and the context: a data pattern imports the index of its
\* attribute and panics if there is none; a RuleExpr panics if its name is
\* not among the local arrangements; a PullLevel lowers its sub-plan, arranges
\* it and joins it with the forward index of each pulled attribute in turn,
\* panicking at the first attribute without an index; a Pull lowers its
\* paths in turn and concatenates them.
RECURSIVE Lower(_, _, _)
RECURSIVE LowerPaths(_, _, _, _, _)
Lower(plan, local, ctx) ==
    CASE plan.variant \in {"MatchA", "MatchAV"} ->
            IF forward_index(ctx, plan.aid) THEN Lowered(FALSE, 1) ELSE Lowered(TRUE, 0)
      [] plan.variant \in {"Project", "Join", "Union"} ->
            LowerPaths(plan.plans, 1, 0, local, ctx)
      [] plan.variant = "RuleExpr" ->
            IF plan.name \in local THEN Lowered(FALSE, 1) ELSE Lowered(TRUE, 0)
      [] plan.variant = "PullLevel" ->
            LET input == Lower(plan.plans[1], local, ctx)
                pulled == plan.pull_attributes
                missing == {i \in 1..Len(pulled) : ~forward_index(ctx, pulled[i])}
            IN  IF input.panics THEN input
                ELSE IF pulled = <<>>
                THEN IF plan.path_attributes = <<>> THEN input
                     ELSE Lowered(FALSE, input.operators + 1)
                ELSE IF missing # {}
                THEN Lowered(TRUE, input.operators + 1 + 2 * (Min(missing) - 1))
                ELSE Lowered(FALSE, input.operators + 1 + 2 * Len(pulled) + 1)
      [] plan.variant = "Pull" -> LowerPaths(plan.plans, 1, 0, local, ctx)

LowerPaths(paths, i, operators, local, ctx) ==
    IF i > Len(paths) THEN Lowered(FALSE, operators + 1)
    ELSE LET path == Lower(paths[i], local, ctx)
         IN  IF path.panics THEN Lowered(TRUE, operators + path.operators)
             ELSE LowerPaths(paths, i + 1, operators + path.operators, local, ctx)

\* The traces that lowering a plan imports, by attribute, in the order of
\* the imports: one for a data pattern (import_named), one for each pulled
\* attribute of a PullLevel after those of its input (import_core), those of
\* the sub-plans in turn otherwise.
RECURSIVE Imported(_)
RECURSIVE ImportedBy(_, _)
ImportedBy(plans, i) ==
    IF i > Len(plans) THEN <<>> ELSE Imported(plans[i]) \o ImportedBy(plans, i + 1)
Imported(plan) ==
    CASE plan.variant \in {"MatchA", "MatchAV"} -> <<plan.aid>>
      [] plan.variant = "RuleExpr" -> <<>>
      [] plan.variant = "PullLevel" -> Imported(plan.plans[1]) \o plan.pull_attributes
      [] OTHER -> ImportedBy(plan.plans, 1)

\* The buttons of the ShutdownHandle that lowering a plan returns, by
\* attribute: Plan::implement returns none for a data pattern or a rule
\* expression (import_named gives no button); a PullLevel returns those of
\* its input and adds the button of each pulled attribute; a plan over
\* sub-plans merges theirs.
RECURSIVE Shutdown(_)
RECURSIVE ShutdownBy(_, _)
ShutdownBy(plans, i) ==
    IF i > Len(plans) THEN <<>> ELSE Shutdown(plans[i]) \o ShutdownBy(plans, i + 1)
Shutdown(plan) ==
    CASE plan.variant \in {"MatchA", "MatchAV"} -> <<>>
      [] plan.variant = "RuleExpr" -> <<>>
      [] plan.variant = "PullLevel" -> Shutdown(plan.plans[1]) \o plan.pull_attributes
      [] OTHER -> ShutdownBy(plan.plans, 1)

\* Step 3 of implement: shutdown_handle.merge_with(shutdown) for the rules in
\* list order, and the imports their plans make.
RECURSIVE Merged(_, _)
Merged(rule_list, i) ==
    IF i > Len(rule_list) THEN <<>>
    ELSE Shutdown(rule_list[i].plan) \o Merged(rule_list, i + 1)
RECURSIVE Imports(_, _)
Imports(rule_list, i) ==
    IF i > Len(rule_list) THEN <<>>
    ELSE Imported(rule_list[i].plan) \o Imports(rule_list, i + 1)

\* Step 3 of implement: the plans of the rules are lowered in list order.
RECURSIVE LowerRules(_, _, _, _, _)
LowerRules(rule_list, i, operators, local, ctx) ==
    IF i > Len(rule_list) THEN Lowered(FALSE, operators)
    ELSE LET r == Lower(rule_list[i].plan, local, ctx)
         IN  IF r.panics THEN Lowered(TRUE, operators + r.operators)
             ELSE LowerRules(rule_list, i + 1, operators + r.operators, local, ctx)

\* context.is_underconstrained(name)
is_underconstrained(ctx, name) == TRUE

\* What a call of implement returned (or that it panicked), and the
\* operators it had built by then.
Implemented(name, result, operators) ==
    [name |-> name, result |-> result, operators |-> operators]

\* implement(name, scope, context)
implement(ctx, name) ==
    LET collection == collect_dependencies(ctx, <<name>>)
        rule_list == SortByName(collection.rules, Len(collection.rules))
        \* Step 1: a recursive variable for each rule
        local == {rule_list[i].name : i \in {j \in 1..Len(rule_list) :
                                            is_underconstrained(ctx, rule_list[j].name)}}
        lowered == LowerRules(rule_list, 1, Cardinality(local), local, ctx)
    IN  IF collection.result # Ok THEN Implemented(name, collection.result, 0)
        ELSE IF Duplicated(rule_list) THEN Implemented(name, Err(Conflict), 0)
        \* Step 2: the published name must have a variable
        ELSE IF name \notin local
        THEN Implemented(name, Err(NotFound), Cardinality(local))
        \* Step 3
        ELSE IF lowered.panics THEN Implemented(name, Panic, lowered.operators)
        \* Step 4: each rule takes its variable out of the local arrangements;
        \* the second rule of a name finds none
        ELSE IF Cardinality(local) < Len(rule_list)
        THEN Implemented(name, Err(NotFound), lowered.operators)
        ELSE Implemented(name, Ok, lowered.operators)

\* The plans of the model, to a depth: data patterns and rule expressions,
\* and around them a PullLevel pulling at most one attribute and a Pull of
\* at most one path.
Leaves(names, aids) == {MatchA(aid) : aid \in aids} \cup {RuleExpr(name) : name \in names}
Levels(plans, aids) ==
    {PullLevel(plan, pulled, <<>>) : plan \in plans, pulled \in SeqsUpTo(aids, 1)}
RECURSIVE PlansUpTo(_, _, _)
PlansUpTo(depth, names, aids) ==
    IF depth = 0 THEN Leaves(names, aids)
    ELSE LET inner == PlansUpTo(depth - 1, names, aids)
             levels == Levels(inner, aids)
         IN  inner \cup levels \cup {Pull(paths) : paths \in SeqsUpTo(levels, 1)}

\* The contexts of the model. In one family every rule is registered under
\* its own name and its plan may name an attribute ("b") or a rule the
\* context may not have; in the other a context may return a rule of any
\* name for a name it is asked for, as an implementation of ImplContext may.
Range(s) == {s[i] : i \in DOMAIN s}
KeyedNames == {PlanNames[1], PlanNames[2]}
KeyedContexts ==
    {[rules |-> [k \in DOMAIN plans |-> Rule(k, plans[k])], attributes |-> known] :
        plans \in UNION {[S -> PlansUpTo(PlanDepth, KeyedNames, Aids)] : S \in SUBSET KeyedNames},
        known \in {{"a"}, Aids}}
AliasedContexts ==
    {[rules |-> rule_list, attributes |-> {"a"}] :
        rule_list \in UNION {[S -> {Rule(name, plan) : name \in Range(PlanNames),
                                                    plan \in Leaves(Range(PlanNames), {"a"})}] :
                            S \in SUBSET Range(PlanNames)}}

NoCall == Implemented("", "none", 0)

\* What a call of collect_dependencies was given and what it returned.
CollectCall(names, result, rule_list) == [names |-> names, result |-> result, rules |-> rule_list]
NoCollect == CollectCall(<<>>, "none", <<>>)

PlanInit(contexts) ==
    /\ context \in contexts
    /\ implemented = NoCall
    /\ collected = NoCollect

\* No rule is planned.
NoContext == [rules |-> EmptyMap, attributes |-> {}]

\* A call of implement on the context.
Implement(name) ==
    /\ implemented' = implement(context, name)
    /\ UNCHANGED <<context, collected>>
    /\ UNCHANGED <<domainVars, operatorVars, pipelineVars, serverVars, sourceVars, queryVars, scopeVars, handleVars, deliveryVars, sinkVars>>

PlanNext == \E name \in Range(PlanNames) : Implement(name)

\* Most names a call of collect_dependencies is given.
MaxNames == 2

\* A call of collect_dependencies on the context.
CollectDependencies(names) ==
    /\ LET returned == collect_dependencies(context, names)
       IN  collected' = CollectCall(names, returned.result, returned.rules)
    /\ UNCHANGED <<context, implemented>>
    /\ UNCHANGED <<domainVars, operatorVars, pipelineVars, serverVars, sourceVars, queryVars, scopeVars, handleVars, deliveryVars, sinkVars>>

CollectNext == \E names \in SeqsUpTo(Range(PlanNames), MaxNames) : CollectDependencies(names)

\* ========================================================= file sources
\* A JSON file is a sequence of lines, some of them empty; the records of a
\* CSV file are what csv::Reader::into_records yields.
BlankLine == ""
ObjectLine == "{}"
Record == "r"

\* The indices of the workers, scope.index() of each.
Readers == 0..(peers - 1)

\* let mut num_datums_read = 0; let mut datum_index = 0; (and the reader at
\* the start of the file, the capability held)
NewReader == [position |-> 0, index |-> 0, num_read |-> 0, capability |-> TRUE]

SourceInit(formats) ==
    /\ format \in formats
    /\ file \in (IF format = "csv" THEN SeqsUpTo({Record}, MaxRows)
                 ELSE IF format = "json" THEN SeqsUpTo({BlankLine, ObjectLine}, MaxRows)
                 ELSE {<<>>})
    /\ peers \in (IF format = "none" THEN {1} ELSE 1..MaxPeers)
    /\ readers = [w \in Readers |-> NewReader]
    /\ given = [w \in Readers |-> <<>>]

\* The row is taken by the worker that owns it.
Owns_any(index, num_workers, worker_index) == TRUE

\* datum_index % num_workers == worker_index
Owns(index, num_workers, worker_index) == index % num_workers = worker_index

\* One turn of the loop body of CsvFile::source: the record is given to the
\* sessions by the worker that owns its index, and the index moves on.
ReadRecord(st, worker_index) ==
    LET mine == Owns(st.reader.index, peers, worker_index)
    IN [reader |-> [st.reader EXCEPT !.position = @ + 1,
                                     !.index = @ + 1,
                                     !.num_read = IF mine THEN @ + 1 ELSE @],
        given |-> IF mine THEN Append(st.given, st.reader.index) ELSE st.given]

\* One turn of the loop body of JsonFile::source: the object is given by the
\* worker that owns its index if the line is not empty; object_index moves on
\* for every line.
ReadLine(st, line, worker_index) ==
    LET mine == Owns(st.reader.index, peers, worker_index) /\ line # BlankLine
    IN [reader |-> [st.reader EXCEPT !.position = @ + 1,
                                     !.index = @ + 1,
                                     !.num_read = IF mine THEN @ + 1 ELSE @],
        given |-> IF mine THEN Append(st.given, st.reader.index) ELSE st.given]

\* while let Some(result) = iterator.next() { ... }
RECURSIVE ReadRecords(_, _)
ReadRecords(st, worker_index) ==
    IF st.reader.position >= Len(file) THEN st
    ELSE ReadRecords(ReadRecord(st, worker_index), worker_index)

\* for readline in iterator.by_ref().take(256 - 1) { ... }
RECURSIVE ReadLines(_, _, _)
ReadLines(st, fuel, worker_index) ==
    IF fuel = 0 \/ st.reader.position >= Len(file) THEN st
    ELSE ReadLines(ReadLine(st, file[st.reader.position + 1], worker_index),
                   fuel - 1, worker_index)

\* An activation of the CSV source of a worker: it reads the file to its end
\* and drops its capabilities.
CsvActivate(w) ==
    /\ format = "csv"
    /\ readers[w].capability
    /\ LET st == ReadRecords([reader |-> readers[w], given |-> given[w]], w)
       IN /\ readers' = [readers EXCEPT ![w] = [st.reader EXCEPT !.capability = FALSE]]
          /\ given' = [given EXCEPT ![w] = st.given]
    /\ UNCHANGED <<file, format, peers>>
    /\ UNCHANGED <<domainVars, operatorVars, pipelineVars, serverVars, planVars, queryVars, scopeVars, handleVars, deliveryVars, sinkVars>>

\* An activation of the JSON source of a worker with lines left: it takes the
\* next lines and activates itself again.
JsonRead(w) ==
    /\ format = "json"
    /\ readers[w].capability
    /\ readers[w].position < Len(file)
    /\ LET st == ReadLines([reader |-> readers[w], given |-> given[w]], MaxLines, w)
       IN /\ readers' = [readers EXCEPT ![w] = st.reader]
          /\ given' = [given EXCEPT ![w] = st.given]
    /\ UNCHANGED <<file, format, peers>>
    /\ UNCHANGED <<domainVars, operatorVars, pipelineVars, serverVars, planVars, queryVars, scopeVars, handleVars, deliveryVars, sinkVars>>

\* An activation of the JSON source at the end of the file: cap = None.
JsonDone(w) ==
    /\ format = "json"
    /\ readers[w].capability
    /\ readers[w].position >= Len(file)
    /\ readers' = [readers EXCEPT ![w].capability = FALSE]
    /\ UNCHANGED <<file, format, peers, given>>
    /\ UNCHANGED <<domainVars, operatorVars, pipelineVars, serverVars, planVars, queryVars, scopeVars, handleVars, deliveryVars, sinkVars>>

SourceNext ==
    \E w \in Readers :
        \/ CsvActivate(w)
        \/ JsonRead(w)
        \/ JsonDone(w)

\* ===================================================== evaluating a plan
\* What the dataflow of a lowered plan computes, as accumulated collections:
\* a collection is a bag of tuples, a function from the tuples it holds to
\* their (positive) multiplicities.

\* Value: Eid, String and Aid, each a tag and its content.
Eid(n) == <<"Eid", n>>
String(x) == <<"String", x>>
AidValue(a) == <<"Aid", a>>

Copies(bag, t) == IF t \in DOMAIN bag THEN bag[t] ELSE 0
NoTuples == [t \in {} |-> 0]

RECURSIVE SumOf(_, _)
SumOf(f, S) ==
    IF S = {} THEN 0
    ELSE LET x == CHOOSE y \in S : TRUE IN f[x] + SumOf(f, S \ {x})

\* The collection of a set of contributions [tuple, count, from].
Collected(contributions) ==
    [t \in {c.tuple : c \in contributions} |->
        SumOf([c \in contributions |-> c.count], {c \in contributions : c.tuple = t})]

\* concatenate
Concatenate(left, right) ==
    [t \in DOMAIN left \cup DOMAIN right |-> Copies(left, t) + Copies(right, t)]

\* distinct
Deduplicated(tuples) == [t \in DOMAIN tuples |-> 1]

\* Every input semantics keeps the copies of a repeated datom.
IndexOf_raw(kind, tuples) == tuples

\* The collection an attribute's indices are built from: the tuples of its
\* input as they are (Raw), or each of them once (CardinalityMany).
IndexOf(kind, tuples) ==
    CASE kind = "Raw" -> tuples
      [] kind = "CardinalityMany" -> Deduplicated(tuples)

IndicesOf(asserted, kinds) == [a \in DOMAIN asserted |-> IndexOf(kinds[a], asserted[a])]
Indices == IndicesOf(db, input_semantics)

\* A collection, or the panic of the operator that was to produce it.
Relation(panics, tuples) == [lowered |-> TRUE, panics |-> panics, tuples |-> tuples]
Panicked == Relation(TRUE, NoTuples)
\* No plan has been lowered yet.
NotLowered == [lowered |-> FALSE, panics |-> FALSE, tuples |-> NoTuples]

\* Plan::MatchAV(sym, a, v)
MatchAV(aid, value) ==
    [variant |-> "MatchAV", aid |-> aid, name |-> "", value |-> value,
     pull_attributes |-> <<>>, path_attributes |-> <<>>, plans |-> <<>>]

\* Plan::Join of two plans on the last variable of the left and the first of
\* the right; Plan::Project of a plan onto some of its columns; Plan::Union.
Join(left, right) ==
    [variant |-> "Join", aid |-> "", name |-> "", pull_attributes |-> <<>>,
     path_attributes |-> <<>>, plans |-> <<left, right>>]
Project(plan, columns) ==
    [variant |-> "Project", aid |-> "", name |-> "", columns |-> columns,
     pull_attributes |-> <<>>, path_attributes |-> <<>>, plans |-> <<plan>>]
Union(plans) ==
    [variant |-> "Union", aid |-> "", name |-> "", pull_attributes |-> <<>>,
     path_attributes |-> <<>>, plans |-> plans]

\* Binding::attribute(e, a, v), and the plan q(variables, bindings) gives.
Binding(e, aid, v) == [e |-> e, aid |-> aid, v |-> v]
Hector(variables, bindings) ==
    [variant |-> "Hector", aid |-> "", name |-> "", variables |-> variables,
     bindings |-> bindings, pull_attributes |-> <<>>, path_attributes |-> <<>>,
     plans |-> <<>>]

\* A plan that keeps the first binding only.
q_first(target_variables, bindings) == Hector(target_variables, <<bindings[1]>>)

\* q(target_variables, bindings)
q(target_variables, bindings) == Hector(target_variables, bindings)

\* Hector: the prefixes over the first i - 1 variables are extended to the
\* i-th. Of the bindings that mention the variable, those whose other
\* variable is in the prefix take part: one proposes the values its index
\* holds for the prefix, the others validate them. A variable none of whose
\* bindings reaches into the prefix takes the values of its column in the
\* first binding that mentions it.
Position(variables, x) == CHOOSE k \in DOMAIN variables : variables[k] = x
Other(binding, x) == IF binding.e = x THEN binding.v ELSE binding.e
Holds(binding, indices, variables, prefix, x, value) ==
    LET other == prefix[Position(variables, Other(binding, x))]
    IN  IF binding.v = x THEN Copies(indices[binding.aid], <<other, value>>)
        ELSE Copies(indices[binding.aid], <<value, other>>)
Column(binding, indices, x) ==
    {IF binding.v = x THEN d[2] ELSE d[1] : d \in DOMAIN indices[binding.aid]}

RECURSIVE Validated(_, _, _, _, _, _, _)
Validated(others, i, indices, variables, prefix, x, value) ==
    IF i > Len(others) THEN 1
    ELSE Holds(others[i], indices, variables, prefix, x, value)
             * Validated(others, i + 1, indices, variables, prefix, x, value)

RECURSIVE Extended(_, _, _, _, _)
Extended(plan, indices, chosen, i, prefixes) ==
    IF i > Len(plan.variables) THEN prefixes
    ELSE LET x == plan.variables[i]
             bound == {plan.variables[k] : k \in 1..(i - 1)}
             Mentions(b) == b.e = x \/ b.v = x
             Reaches(b) == Other(b, x) \in bound
             mentioning == SelectSeq(plan.bindings, Mentions)
             active == SelectSeq(mentioning, Reaches)
             proposer == ((chosen[i] - 1) % Len(active)) + 1
             values == UNION {Column(mentioning[k], indices, x) : k \in DOMAIN mentioning}
             extensions ==
                 {c \in [prefix : DOMAIN prefixes, value : values] :
                     IF active = <<>> THEN c.value \in Column(mentioning[1], indices, x)
                     ELSE /\ Holds(active[proposer], indices, plan.variables, c.prefix, x, c.value) > 0
                          /\ Validated(active, 1, indices, plan.variables, c.prefix, x, c.value) > 0}
         IN  Extended(plan, indices, chosen, i + 1,
                      [t \in {Append(c.prefix, c.value) : c \in extensions} |->
                          LET prefix == SubSeq(t, 1, i - 1)
                          IN  prefixes[prefix]
                                * (IF active = <<>> THEN 1
                                   ELSE Validated(active, 1, indices, plan.variables,
                                                  prefix, x, t[i]))])

\* The equijoin of two collections: a tuple of the left and one of the right
\* that starts with the left one's last value give the left tuple followed
\* by the rest of the right one, as often as the product of their counts.
Joined(left, right) ==
    LET matches == {m \in (DOMAIN left) \X (DOMAIN right) : m[1][Len(m[1])] = m[2][1]}
    IN  Collected({[tuple |-> m[1] \o Tail(m[2]), count |-> left[m[1]] * right[m[2]],
                    from |-> m] : m \in matches})

\* The projection of a collection onto columns.
Projected(tuples, columns) ==
    Collected({[tuple |-> [k \in DOMAIN columns |-> t[columns[k]]], count |-> tuples[t],
                from |-> t] : t \in DOMAIN tuples})

\* The loop of interleave from index i: a constant at the even indices, a
\* value at the odd ones, size elements in all; an index past the end of
\* either slice panics.
RECURSIVE Interleaved(_, _, _, _, _, _)
Interleaved(values, constants, i, next_value, next_const, result) ==
    IF i = Len(values) + Len(constants) THEN [panics |-> FALSE, result |-> result]
    ELSE IF i % 2 = 0
    THEN IF next_const >= Len(constants) THEN [panics |-> TRUE, result |-> result]
         ELSE Interleaved(values, constants, i + 1, next_value, next_const + 1,
                          Append(result, AidValue(constants[next_const + 1])))
    ELSE IF next_value >= Len(values) THEN [panics |-> TRUE, result |-> result]
         ELSE Interleaved(values, constants, i + 1, next_value + 1, next_const,
                          Append(result, values[next_value + 1]))

\* interleave(values, constants)
interleave(values, constants) ==
    IF values = <<>> \/ constants = <<>> THEN [panics |-> FALSE, result |-> values]
    ELSE Interleaved(values, constants, 0, 0, 0, <<>>)

\* input.tuples().map(|tuple| interleave(&tuple, &path_attributes))
InterleaveAll(input, path_attributes) ==
    IF \E p \in DOMAIN input : interleave(p, path_attributes).panics THEN Panicked
    ELSE Relation(FALSE, Collected({[tuple |-> interleave(p, path_attributes).result,
                                     count |-> input[p], from |-> p] : p \in DOMAIN input}))

\* e_path.join_core(&e_v, ..) for one pulled attribute: the paths keyed by
\* their last value meet the (e, v) pairs of the attribute's forward index.
PullAttribute(input, index, a, path_attributes) ==
    LET matches == {m \in (DOMAIN input) \X (DOMAIN index) : m[1][Len(m[1])] = m[2][1]}
    IN  IF \E m \in matches : interleave(m[1], path_attributes).panics THEN Panicked
        ELSE Relation(FALSE, Collected(
                {[tuple |-> interleave(m[1], path_attributes).result \o <<AidValue(a), m[2][2]>>,
                  count |-> input[m[1]] * index[m[2]],
                  from |-> m] : m \in matches}))

\* nested.concatenate(streams) over the pulled attributes from position i
RECURSIVE PullAttributes(_, _, _, _, _)
PullAttributes(input, indices, pull_attributes, path_attributes, i) ==
    IF i > Len(pull_attributes) THEN Relation(FALSE, NoTuples)
    ELSE IF pull_attributes[i] \notin DOMAIN indices THEN Panicked
    ELSE LET stream == PullAttribute(input, indices[pull_attributes[i]],
                                     pull_attributes[i], path_attributes)
             others == PullAttributes(input, indices, pull_attributes, path_attributes, i + 1)
         IN  IF stream.panics \/ others.panics THEN Panicked
             ELSE Relation(FALSE, Concatenate(stream.tuples, others.tuples))

\* The collection of a lowered plan over the indices of the attributes and
\* the local arrangements of the rules.
RECURSIVE Evaluated(_, _, _)
RECURSIVE EvaluatedPaths(_, _, _, _)
Evaluated(plan, local, indices) ==
    CASE plan.variant = "MatchA" ->
            IF plan.aid \notin DOMAIN indices THEN Panicked
            ELSE Relation(FALSE, indices[plan.aid])
      [] plan.variant = "MatchAV" ->
            IF plan.aid \notin DOMAIN indices THEN Panicked
            ELSE LET index == indices[plan.aid]
                 IN  Relation(FALSE, Collected({[tuple |-> <<d[1]>>, count |-> index[d], from |-> d] :
                                                  d \in {x \in DOMAIN index : x[2] = plan.value}}))
      [] plan.variant = "RuleExpr" ->
            IF plan.name \notin DOMAIN local THEN Panicked
            ELSE Relation(FALSE, local[plan.name])
      [] plan.variant = "PullLevel" ->
            LET input == Evaluated(plan.plans[1], local, indices)
            IN  IF input.panics THEN Panicked
                ELSE IF plan.pull_attributes = <<>>
                THEN IF plan.path_attributes = <<>> THEN input
                     ELSE InterleaveAll(input.tuples, plan.path_attributes)
                ELSE PullAttributes(input.tuples, indices, plan.pull_attributes,
                                    plan.path_attributes, 1)
      [] plan.variant = "Pull" -> EvaluatedPaths(plan.plans, local, indices, 1)
      [] plan.variant = "Hector" ->
            IF \E k \in DOMAIN plan.bindings : plan.bindings[k].aid \notin DOMAIN indices
            THEN Panicked
            ELSE Relation(FALSE, Extended(plan, indices, proposers, 1, [t \in {<<>>} |-> 1]))
      [] plan.variant = "Join" ->
            LET left == Evaluated(plan.plans[1], local, indices)
                right == Evaluated(plan.plans[2], local, indices)
            IN  IF left.panics \/ right.panics THEN Panicked
                ELSE Relation(FALSE, Joined(left.tuples, right.tuples))
      [] plan.variant = "Project" ->
            LET input == Evaluated(plan.plans[1], local, indices)
            IN  IF input.panics THEN Panicked
                ELSE Relation(FALSE, Projected(input.tuples, plan.columns))
      [] plan.variant = "Union" ->
            LET all == EvaluatedPaths(plan.plans, local, indices, 1)
            IN  IF all.panics THEN Panicked
                ELSE IF unions = "distinct" THEN Relation(FALSE, Deduplicated(all.tuples))
                ELSE all

\* Pull::implement: the paths are lowered in turn and concatenated.
EvaluatedPaths(paths, local, indices, i) ==
    IF i > Len(paths) THEN Relation(FALSE, NoTuples)
    ELSE LET path == Evaluated(paths[i], local, indices)
             others == EvaluatedPaths(paths, local, indices, i + 1)
         IN  IF path.panics \/ others.panics THEN Panicked
             ELSE Relation(FALSE, Concatenate(path.tuples, others.tuples))

\* Step 4 of implement: a rule's variable is set to the tuples of its
\* execution, consolidated, or distinct in a build with set-semantics.
Close(tuples) == IF set_semantics THEN Deduplicated(tuples) ELSE tuples

\* A scope that runs one round only: the variables take the tuples of the
\* plans on the empty variables.
Iterated_once(rule_list, variables, indices) ==
    LET executions == [i \in DOMAIN rule_list |->
                          Evaluated(rule_list[i].plan, variables, indices)]
    IN  [panics |-> \E i \in DOMAIN rule_list : executions[i].panics,
         variables |-> [n \in DOMAIN variables |->
                          executions[CHOOSE i \in DOMAIN rule_list : rule_list[i].name = n].tuples]]

\* The iterative scope of implement: every rule's variable starts empty, and
\* in each round takes the closed tuples of the rule's plan on the variables
\* of the round before, until nothing changes.
RECURSIVE Iterated(_, _, _)
Iterated(rule_list, variables, indices) ==
    LET executions == [i \in DOMAIN rule_list |->
                          Evaluated(rule_list[i].plan, variables, indices)]
        next == [n \in DOMAIN variables |->
                    Close(executions[CHOOSE i \in DOMAIN rule_list : rule_list[i].name = n].tuples)]
    IN  IF \E i \in DOMAIN rule_list : executions[i].panics
        THEN [panics |-> TRUE, variables |-> variables]
        ELSE IF next = variables THEN [panics |-> FALSE, variables |-> variables]
        ELSE Iterated(rule_list, next, indices)

\* The relation implement publishes for a name: relation.leave() of the
\* name's variable, if implement returns Ok.
Published(ctx, name, indices) ==
    LET call == implement(ctx, name)
        collection == collect_dependencies(ctx, <<name>>)
        rule_list == SortByName(collection.rules, Len(collection.rules))
        names == {rule_list[i].name : i \in DOMAIN rule_list}
        run == Iterated(rule_list, [n \in names |-> NoTuples], indices)
    IN  IF call.result = Panic THEN Panicked
        ELSE IF call.result # Ok THEN NotLowered
        ELSE IF run.panics THEN Panicked
        ELSE Relation(FALSE, run.variables[name])

\* The bags over a set of tuples with at most n copies of each.
BagsOver(S, n) ==
    {[t \in {x \in S : counts[x] > 0} |-> counts[t]] : counts \in [S -> 0..n]}

\* The collections the pulls of the model run on: edges between two entities
\* and their names.
EdgeDatoms == {<<Eid("1"), Eid("2")>>, <<Eid("2"), Eid("2")>>}
NameDatoms == {<<Eid("1"), String("A")>>, <<Eid("2"), String("A")>>, <<Eid("2"), String("B")>>}
PullDbs ==
    {[edge |-> edges, name |-> names] :
        edges \in BagsOver(EdgeDatoms, 1), names \in BagsOver(NameDatoms, 1)}

\* The pulls of the model: levels over a one-column and a two-column input,
\* with up to two pulled attributes and up to two path attributes, and the
\* Pulls of up to MaxPaths levels over the two-column input.
PulledAttributes == {<<>>, <<"name">>, <<"name", "edge">>}
PathAttributes == {<<>>, <<"root">>, <<"root", "edge">>}
PullLevels(plans) ==
    {PullLevel(plan, pulled, path) :
        plan \in plans, pulled \in PulledAttributes, path \in PathAttributes}
PullQueries ==
    PullLevels({MatchA("edge"), MatchAV("name", String("A"))})
        \cup {Pull(paths) : paths \in SeqsUpTo(PullLevels({MatchA("edge")}), MaxPaths)}

NoQuery == Leaf("none", "", "")
NoDb == [edge |-> NoTuples]

\* The state of an iterative scope; none is built.
Scope(running, fixed, rule_list, variables) ==
    [running |-> running, fixed |-> fixed, rules |-> rule_list, variables |-> variables]
NoScope == Scope(FALSE, FALSE, <<>>, <<>>)

QueryInit(dbs, queries) ==
    /\ db \in dbs
    /\ input_semantics = [a \in DOMAIN db |-> "Raw"]
    /\ set_semantics = FALSE
    /\ unions = "concatenated"
    /\ proposers = <<>>
    /\ query \in queries
    /\ produced = NotLowered
    /\ scope = NoScope
    /\ turn = FALSE

\* The rules of the model over attributes: a data pattern, a data pattern
\* with a value, a pull, a pull of one level twice, and a rule over another.
RulePlans ==
    {MatchA("edge"), MatchAV("name", String("A")), RuleExpr("p"),
     PullLevel(MatchA("edge"), <<"name">>, <<"root", "edge">>),
     Pull(<<PullLevel(MatchA("edge"), <<>>, <<>>), PullLevel(MatchA("edge"), <<>>, <<>>)>>)}
RuleContexts ==
    {[rules |-> [n \in {"p", "q"} |-> IF n = "q" THEN Rule("q", plan)
                                       ELSE Rule("p", MatchA("name"))],
      attributes |-> {"edge", "name"}] : plan \in RulePlans}
RuleDbs ==
    {[edge |-> edges, name |-> names] :
        edges \in BagsOver(EdgeDatoms, 1), names \in BagsOver(NameDatoms, 1)}

\* The rule of reachability over the attribute edge:
\* reach(a, c) :- edge(a, c); reach(a, c) :- edge(a, b), reach(b, c).
Reach ==
    Union(<<MatchA("edge"),
            Project(Join(MatchA("edge"), RuleExpr("reach")), <<1, 3>>)>>)
ReachContext == [rules |-> [n \in {"reach"} |-> Rule("reach", Reach)], attributes |-> {"edge"}]

\* Acyclic edges: from a node to a later one.
Nodes == <<"1", "2", "3", "4", "5", "6">>
NodePairs == {ij \in (1..MaxNodes) \X (1..MaxNodes) : ij[1] < ij[2]}
LaterEdges == {<<Eid(Nodes[ij[1]]), Eid(Nodes[ij[2]])>> : ij \in NodePairs}
ReachDbs == {[edge |-> edges] : edges \in BagsOver(LaterEdges, 1)}

\* The plans of the worst-case optimal join: the triangles of the experiment,
\* the same with the variables in another order, paths of two edges, and
\* the edges themselves.
Triangles ==
    q(<<"a", "b", "c">>,
      <<Binding("a", "edge", "b"), Binding("b", "edge", "c"), Binding("a", "edge", "c")>>)
HectorQueries ==
    {Triangles,
     q(<<"c", "a", "b">>,
       <<Binding("a", "edge", "b"), Binding("b", "edge", "c"), Binding("a", "edge", "c")>>),
     q(<<"a", "c", "b">>, <<Binding("a", "edge", "b"), Binding("b", "edge", "c")>>),
     q(<<"b", "a">>, <<Binding("a", "edge", "b")>>)}
HectorNodes == {"1", "2", "3"}
HectorEdges == {<<Eid(x), Eid(y)>> : x, y \in HectorNodes} \ {<<Eid(x), Eid(x)>> : x \in HectorNodes}
HectorDbs == {[edge |-> edges] : edges \in BagsOver(HectorEdges, 1)}

HectorInit ==
    /\ db \in HectorDbs
    /\ input_semantics \in [DOMAIN db -> {"Raw", "CardinalityMany"}]
    /\ set_semantics = FALSE
    /\ unions = "concatenated"
    /\ query \in HectorQueries
    /\ proposers \in [1..Len(query.variables) -> 1..MaxBindings]
    /\ produced = NotLowered
    /\ scope = NoScope
    /\ turn = FALSE

\* The attributes hold what a database gives them, under any input semantics
\* but CardinalityOne, in either build.
RuleInit(dbs) ==
    /\ db \in dbs
    /\ input_semantics \in [DOMAIN db -> {"Raw", "CardinalityMany"}]
    /\ set_semantics \in BOOLEAN
    /\ unions \in {"concatenated", "distinct"}
    /\ proposers = <<>>
    /\ query = NoQuery
    /\ produced = NotLowered
    /\ scope = NoScope
    /\ turn = FALSE

\* What the lowered plan, or the published rule, has produced on indices.
Running(call, indices) ==
    IF query # NoQuery THEN Evaluated(query, [n \in {} |-> NoTuples], indices)
    ELSE Published(context, call.name, indices)

\* The plan is lowered, and its dataflow runs on the collections of the
\* attributes.
Evaluate ==
    /\ query # NoQuery
    /\ ~produced.lowered
    /\ produced' = Running(implemented, Indices)
    /\ UNCHANGED <<db, input_semantics, set_semantics, unions, proposers, query>>
    /\ UNCHANGED <<domainVars, operatorVars, pipelineVars, serverVars, planVars, sourceVars, scopeVars, handleVars, deliveryVars, sinkVars>>

\* A rule of the context is published: implement, and the dataflow runs on
\* the collections of the attributes.
Publish(name) ==
    /\ query = NoQuery
    /\ implemented = NoCall
    /\ implemented' = implement(context, name)
    /\ produced' = Running(implemented', Indices)
    /\ UNCHANGED <<context, collected, db, input_semantics, set_semantics, unions, proposers, query>>
    /\ UNCHANGED <<domainVars, operatorVars, pipelineVars, serverVars, sourceVars, scopeVars, handleVars, deliveryVars, sinkVars>>

\* An attribute receives one more copy of a datom, and the dataflow runs on.
AddDatom(aid, datom) ==
    /\ produced.lowered
    /\ ~produced.panics
    /\ Copies(db[aid], datom) < MaxCopies
    /\ db' = [db EXCEPT ![aid] = Concatenate(@, [t \in {datom} |-> 1])]
    /\ produced' = Running(implemented, IndicesOf(db', input_semantics))
    /\ UNCHANGED <<input_semantics, set_semantics, unions, proposers, query>>
    /\ UNCHANGED <<domainVars, operatorVars, pipelineVars, serverVars, planVars, sourceVars, scopeVars, handleVars, deliveryVars, sinkVars>>

\* Longest tuple and longest list of path attributes interleave is called on.
MaxWidth == 3

\* A call of interleave(values, constants).
InterleaveCall(values, constants) ==
    [variant |-> "interleave", values |-> values, constants |-> constants]

InterleaveCalls ==
    {InterleaveCall(values, constants) :
        values \in SeqsUpTo({String("A"), String("B")}, MaxWidth),
        constants \in SeqsUpTo({"root", "edge"}, MaxWidth)}

\* interleave is called on the tuple and the path attributes.
Interleave ==
    /\ query.variant = "interleave"
    /\ ~produced.lowered
    /\ LET call == interleave(query.values, query.constants)
       IN  produced' = Relation(call.panics, call.result)
    /\ UNCHANGED <<db, input_semantics, set_semantics, unions, proposers, query>>
    /\ UNCHANGED <<domainVars, operatorVars, pipelineVars, serverVars, planVars, sourceVars, scopeVars, handleVars, deliveryVars, sinkVars>>

InterleaveNext == Interleave

PullNext ==
    \/ Evaluate
    \/ \E datom \in EdgeDatoms : AddDatom("edge", datom)

RuleNext ==
    \/ Publish("q")
    \/ \E datom \in EdgeDatoms : AddDatom("edge", datom)
    \/ \E datom \in NameDatoms : AddDatom("name", datom)

\* An edge is added; one that is there already only to an attribute that
\* keeps each datom once.
HectorNext ==
    \/ Evaluate
    \/ \E datom \in HectorEdges :
           /\ input_semantics["edge"] = "CardinalityMany" \/ Copies(db["edge"], datom) = 0
           /\ AddDatom("edge", datom)

ReachNext ==
    \/ Publish("reach")
    \/ \E datom \in LaterEdges : AddDatom("edge", datom)

\* The width of a multiplicity (isize), in bits.
CountBits == 2

\* Multiplicities wrap at the width of isize; a tuple of multiplicity zero
\* is not in the collection.
Wrapped(tuples) ==
    LET count(t) == tuples[t] % Pow2(CountBits)
    IN  [t \in {x \in DOMAIN tuples : count(x) # 0} |-> count(t)]

\* A rule that refers to itself through a Pull: the edges, and the rule
\* itself.
Loop ==
    Pull(<<PullLevel(MatchA("edge"), <<>>, <<>>), PullLevel(RuleExpr("p"), <<>>, <<>>)>>)
LoopContext == [rules |-> [n \in {"p"} |-> Rule("p", Loop)], attributes |-> {"edge"}]

\* Edges between the first nodes, cycles and loops included.
MaxCycle == 2
CycleEdges == {<<Eid(Nodes[i]), Eid(Nodes[j])>> : i, j \in 1..MaxCycle}
CycleDbs == {[edge |-> edges] : edges \in BagsOver(CycleEdges, 1)}

\* implement builds the iterative scope of a name: the rules are collected
\* and sorted by name, and Step 1 gives every rule an empty variable.
Enter(name) ==
    LET call == implement(context, name)
        collection == collect_dependencies(context, <<name>>)
        rule_list == SortByName(collection.rules, Len(collection.rules))
    IN  /\ ~scope.running
        /\ implemented = NoCall
        /\ call.result = Ok
        /\ implemented' = call
        /\ scope' = Scope(TRUE, FALSE, rule_list,
                          [n \in {rule_list[i].name : i \in DOMAIN rule_list} |-> NoTuples])
        /\ UNCHANGED <<context, collected, turn>>
        /\ UNCHANGED <<domainVars, operatorVars, pipelineVars, serverVars, sourceVars, queryVars,
                       handleVars, deliveryVars, sinkVars>>

\* The variables after one more round: each takes the closed tuples of its
\* rule's plan on the variables of the round before (Step 3 and Step 4).
Executed(rule_list, variables, indices) ==
    [i \in DOMAIN rule_list |-> Evaluated(rule_list[i].plan, variables, indices)]
Closed_all(rule_list, variables, executions) ==
    [n \in DOMAIN variables |->
        Close(Wrapped(executions[CHOOSE i \in DOMAIN rule_list : rule_list[i].name = n].tuples))]

\* One round of the scope; the scope is done when a round changes nothing.
Round ==
    /\ scope.running
    /\ ~scope.fixed
    /\ turn' = ~turn
    /\ \E executions \in {Executed(scope.rules, scope.variables, Indices)} :
         \E next \in {Closed_all(scope.rules, scope.variables, executions)} :
            scope' = IF \E i \in DOMAIN executions : executions[i].panics
                     THEN Scope(FALSE, FALSE, scope.rules, scope.variables)
                     ELSE Scope(TRUE, next = scope.variables, scope.rules, next)
    /\ UNCHANGED <<domainVars, operatorVars, pipelineVars, serverVars, planVars, sourceVars,
                   queryVars, handleVars, deliveryVars, sinkVars>>

ScopeNext ==
    \/ \E name \in {"reach", "p"} : Enter(name)
    \/ Round

\* ------------------------------------------------------ shutdown handles
\* Most handles and most buttons made.
MaxHandles == 3
MaxButtons == 3

\* A handle that is owned, one whose buttons a merge has moved out (it is
\* dropped at the end of the merge), and one that was dropped.
ShutdownHandle(buttons) == [state |-> "owned", shutdown_buttons |-> buttons]
HandleInit ==
    /\ handles = <<>>
    /\ made = 0
    /\ pressed = <<>>

Owned == {h \in DOMAIN handles : handles[h].state = "owned"}

\* for mut button in self.shutdown_buttons.drain(..) { button.press(); }
RECURSIVE Drained(_, _, _)
Drained(log, buttons, i) ==
    IF i > Len(buttons) THEN log ELSE Drained(Append(log, buttons[i]), buttons, i + 1)

\* (mutant) a merge leaves the buttons in the handle they are taken from.
Taken_copy(buttons) == buttons

\* Vec::append(&mut other.shutdown_buttons): what is left in the other
\* vector.
Taken(buttons) == <<>>

\* ShutdownHandle::empty()
Empty ==
    /\ Len(handles) < MaxHandles
    /\ handles' = Append(handles, ShutdownHandle(<<>>))
    /\ UNCHANGED <<made, pressed>>
    /\ UNCHANGED <<domainVars, operatorVars, pipelineVars, serverVars, planVars, sourceVars,
                   queryVars, scopeVars, deliveryVars, sinkVars>>

\* ShutdownHandle::from_button(button), with a new button
FromButton ==
    /\ Len(handles) < MaxHandles
    /\ made < MaxButtons
    /\ made' = made + 1
    /\ handles' = Append(handles, ShutdownHandle(<<made'>>))
    /\ UNCHANGED pressed
    /\ UNCHANGED <<domainVars, operatorVars, pipelineVars, serverVars, planVars, sourceVars,
                   queryVars, scopeVars, deliveryVars, sinkVars>>

\* handle.add_button(button), with a new button
AddButton(h) ==
    /\ h \in Owned
    /\ made < MaxButtons
    /\ made' = made + 1
    /\ handles' = [handles EXCEPT ![h].shutdown_buttons = Append(@, made')]
    /\ UNCHANGED pressed
    /\ UNCHANGED <<domainVars, operatorVars, pipelineVars, serverVars, planVars, sourceVars,
                   queryVars, scopeVars, deliveryVars, sinkVars>>

\* handle.merge_with(other): the buttons of other are appended, and other is
\* dropped with what is left in it when the call returns.
MergeWith(h, other) ==
    /\ h \in Owned
    /\ other \in Owned
    /\ h # other
    /\ handles' = [handles EXCEPT
                      ![h].shutdown_buttons = @ \o handles[other].shutdown_buttons,
                      ![other] = [state |-> "moved",
                                  shutdown_buttons |-> Taken(handles[other].shutdown_buttons)]]
    /\ pressed' = Drained(pressed, handles'[other].shutdown_buttons, 1)
    /\ UNCHANGED made
    /\ UNCHANGED <<domainVars, operatorVars, pipelineVars, serverVars, planVars, sourceVars,
                   queryVars, scopeVars, deliveryVars, sinkVars>>

\* ShutdownHandle::merge(left, right): a new handle takes the buttons of
\* left and then of right, which are dropped with what is left in them. The
\* new handle takes the place of left.
Merge(left, right) ==
    /\ left \in Owned
    /\ right \in Owned
    /\ left # right
    /\ Len(handles) < MaxHandles
    /\ handles' = Append([handles EXCEPT
                             ![left] = [state |-> "moved",
                                        shutdown_buttons |-> Taken(handles[left].shutdown_buttons)],
                             ![right] = [state |-> "moved",
                                         shutdown_buttons |-> Taken(handles[right].shutdown_buttons)]],
                         ShutdownHandle(handles[left].shutdown_buttons
                                          \o handles[right].shutdown_buttons))
    /\ pressed' = Drained(Drained(pressed, handles'[left].shutdown_buttons, 1),
                          handles'[right].shutdown_buttons, 1)
    /\ UNCHANGED made
    /\ UNCHANGED <<domainVars, operatorVars, pipelineVars, serverVars, planVars, sourceVars,
                   queryVars, scopeVars, deliveryVars, sinkVars>>

\* impl Drop for ShutdownHandle: an owned handle goes out of scope.
DropHandle(h) ==
    /\ h \in Owned
    /\ pressed' = Drained(pressed, handles[h].shutdown_buttons, 1)
    /\ handles' = [handles EXCEPT ![h] = [state |-> "dropped", shutdown_buttons |-> <<>>]]
    /\ UNCHANGED made
    /\ UNCHANGED <<domainVars, operatorVars, pipelineVars, serverVars, planVars, sourceVars,
                   queryVars, scopeVars, deliveryVars, sinkVars>>

HandleNext ==
    \/ Empty
    \/ FromButton
    \/ \E h \in DOMAIN handles : AddButton(h)
    \/ \E h, other \in DOMAIN handles : MergeWith(h, other)
    \/ \E left, right \in DOMAIN handles : Merge(left, right)
    \/ \E h \in DOMAIN handles : DropHandle(h)

\* ------------------------------------------------------- specifications
vars == <<domainVars, operatorVars, pipelineVars, serverVars, planVars, sourceVars, queryVars, scopeVars, handleVars, deliveryVars, sinkVars>>

Init ==
    /\ DomainInit
    /\ OperatorInit
    /\ PipelineInit("CardinalityOne")
    /\ ServerInit(FALSE)
    /\ PlanInit({NoContext})
    /\ SourceInit({"none"})
    /\ HandleInit
    /\ QueryInit({NoDb}, {NoQuery})

\* The calls on a Domain.
Next == DomainNext

Spec == Init /\ [][Next]_vars

\* The CardinalityOne operator of one attribute and its ingest session.
NextOperator == OperatorNext

SpecOperator == Init /\ [][NextOperator]_vars

\* The pipeline of one attribute of any input semantics, from its ingest
\* session to its two indices.
InitPipeline ==
    /\ DomainInit
    /\ OperatorInit
    /\ \E s \in InputSemantics : PipelineInit(s)
    /\ ServerInit(FALSE)
    /\ PlanInit({NoContext})
    /\ SourceInit({"none"})
    /\ HandleInit
    /\ QueryInit({NoDb}, {NoQuery})

NextPipeline == PipelineNext

SpecPipeline == InitPipeline /\ [][NextPipeline]_vars

\* One worker of the server, with or without manual_advance.
InitServer ==
    /\ DomainInit
    /\ OperatorInit
    /\ PipelineInit("CardinalityOne")
    /\ \E manual \in BOOLEAN : ServerInit(manual)
    /\ PlanInit({NoContext})
    /\ SourceInit({"none"})
    /\ HandleInit
    /\ QueryInit({NoDb}, {NoQuery})

NextServer == ServerNext

SpecServer == InitServer /\ [][NextServer]_vars

\* The commands alone, whatever the events between them.
NextCommand == CommandNext

SpecCommand == InitServer /\ [][NextCommand]_vars

\* The worker's loop with malformed input.
NextIngress == IngressNext

SpecIngress == InitServer /\ [][NextIngress]_vars

\* The worker's loop with subscribers and results.
NextDelivery == DeliveryNext

SpecDelivery == InitServer /\ [][NextDelivery]_vars

\* The worker's loop with sinks.
NextFlow == FlowNext

SpecFlow == InitServer /\ [][NextFlow]_vars

\* The worker's loop with the events of its channels. The loop polls without
\* blocking and handles every event the poll returns, and it handles every
\* request of a command it has taken: an event or a request that stays due is
\* handled in the end.
NextEvents == EventsNext

SpecEvents ==
    /\ InitServer
    /\ [][NextEvents]_vars
    /\ WF_vars(HandleCommand)
    /\ WF_vars(RESULTS)
    /\ WF_vars(\E source \in {"errors", "results"} : ERRORS(source))

\* implement on the contexts of the model.
InitPlan ==
    /\ DomainInit
    /\ OperatorInit
    /\ PipelineInit("CardinalityOne")
    /\ ServerInit(FALSE)
    /\ PlanInit(KeyedContexts \cup AliasedContexts)
    /\ SourceInit({"none"})
    /\ HandleInit
    /\ QueryInit({NoDb}, {NoQuery})

NextPlan == PlanNext

SpecPlan == InitPlan /\ [][NextPlan]_vars

\* collect_dependencies on the contexts of the model.
InitCollect ==
    /\ DomainInit
    /\ OperatorInit
    /\ PipelineInit("CardinalityOne")
    /\ ServerInit(FALSE)
    /\ PlanInit(KeyedContexts \cup AliasedContexts)
    /\ SourceInit({"none"})
    /\ HandleInit
    /\ QueryInit({NoDb}, {NoQuery})

NextCollect == CollectNext

SpecCollect == InitCollect /\ [][NextCollect]_vars

\* A round can run exactly when the scope runs and is not done, and the
\* rounds are the steps that flip the turn.
Stepped ==
    /\ scope.running
    /\ ~scope.fixed
    /\ turn' = ~turn

\* The iterative scope of a recursive rule, over edges with cycles. The
\* worker keeps stepping the dataflow, so a round that can run does.
InitScope ==
    /\ DomainInit
    /\ OperatorInit
    /\ PipelineInit("CardinalityOne")
    /\ ServerInit(FALSE)
    /\ PlanInit({ReachContext, LoopContext})
    /\ SourceInit({"none"})
    /\ HandleInit
    /\ RuleInit(CycleDbs)

NextScope == ScopeNext

SpecScope == InitScope /\ [][NextScope]_vars /\ WF_turn(Stepped)

\* Operations on shutdown handles.
InitHandle ==
    /\ DomainInit
    /\ OperatorInit
    /\ PipelineInit("CardinalityOne")
    /\ ServerInit(FALSE)
    /\ PlanInit({NoContext})
    /\ SourceInit({"none"})
    /\ HandleInit
    /\ QueryInit({NoDb}, {NoQuery})

NextHandle == HandleNext

SpecHandle == InitHandle /\ [][NextHandle]_vars

\* The workers reading one file.
InitSource ==
    /\ DomainInit
    /\ OperatorInit
    /\ PipelineInit("CardinalityOne")
    /\ ServerInit(FALSE)
    /\ PlanInit({NoContext})
    /\ SourceInit({"csv", "json"})
    /\ HandleInit
    /\ QueryInit({NoDb}, {NoQuery})

NextSource == SourceNext

SpecSource == InitSource /\ [][NextSource]_vars

\* Pulls over the collections of two attributes.
InitPull ==
    /\ DomainInit
    /\ OperatorInit
    /\ PipelineInit("CardinalityOne")
    /\ ServerInit(FALSE)
    /\ PlanInit({NoContext})
    /\ SourceInit({"none"})
    /\ HandleInit
    /\ QueryInit(PullDbs, PullQueries)

NextPull == PullNext

\* interleave on tuples and path attributes of any lengths.
InitInterleave ==
    /\ DomainInit
    /\ OperatorInit
    /\ PipelineInit("CardinalityOne")
    /\ ServerInit(FALSE)
    /\ PlanInit({NoContext})
    /\ SourceInit({"none"})
    /\ HandleInit
    /\ QueryInit({NoDb}, InterleaveCalls)

NextInterleave == InterleaveNext

SpecInterleave == InitInterleave /\ [][NextInterleave]_vars

SpecPull == InitPull /\ [][NextPull]_vars

\* Published rules over attributes of either input semantics.
InitRule ==
    /\ DomainInit
    /\ OperatorInit
    /\ PipelineInit("CardinalityOne")
    /\ ServerInit(FALSE)
    /\ PlanInit(RuleContexts)
    /\ SourceInit({"none"})
    /\ HandleInit
    /\ RuleInit(RuleDbs)

NextRule == RuleNext

SpecRule == InitRule /\ [][NextRule]_vars

\* The worst-case optimal join over the edges of a graph.
InitHector ==
    /\ DomainInit
    /\ OperatorInit
    /\ PipelineInit("CardinalityOne")
    /\ ServerInit(FALSE)
    /\ PlanInit({NoContext})
    /\ SourceInit({"none"})
    /\ HandleInit
    /\ HectorInit

NextHector == HectorNext

SpecHector == InitHector /\ [][NextHector]_vars

\* The recursive rule of reachability over acyclic edges.
InitReach ==
    /\ DomainInit
    /\ OperatorInit
    /\ PipelineInit("CardinalityOne")
    /\ ServerInit(FALSE)
    /\ PlanInit({ReachContext})
    /\ SourceInit({"none"})
    /\ HandleInit
    /\ RuleInit(ReachDbs)

NextReach == ReachNext

SpecReach == InitReach /\ [][NextReach]_vars

\* ================================================================ claims
DomainState == <<now_at, input_sessions, attributes, forward, reverse, relations, arrangements>>

\* C1: advance_to(next) with next strictly earlier than now_at returns the
\* error df.error.category/conflict and leaves now_at, every ingest session
\* and every trace frontier unchanged.
C1_RewindRejected ==
    [][(last'.op = "advance_to" /\ last'.arg < now_at)
         => /\ last'.result = Conflict
            /\ UNCHANGED <<now_at, input_sessions, forward, reverse, arrangements>>]_vars

\* A rewind was rejected in a domain that holds a session and an index.
C1_Witness ==
    /\ last.op = "advance_to"
    /\ last.result = Conflict
    /\ last.arg < now_at
    /\ DOMAIN input_sessions # {}
    /\ DOMAIN arrangements # {}

\* C2: over every sequence of calls on a Domain, now_at never decreases and
\* the time of every registered ingest session is at most now_at.
C2_MonotoneNow ==
    [][/\ now_at' >= now_at
       /\ \A a \in DOMAIN input_sessions' : input_sessions'[a].time <= now_at']_vars

\* The domain has advanced; one session is at now_at and one, created after
\* the advance, is behind it.
C2_Witness ==
    /\ now_at > 0
    /\ \E a, b \in DOMAIN input_sessions :
          /\ input_sessions[a].time = now_at
          /\ input_sessions[b].time < now_at

\* C3 (as claimed): after any advance_to(t) that returns Ok, every ingest
\* session registered in the domain has its time equal to exactly t.
C3_SessionsAtT ==
    [][(last'.op = "advance_to" /\ last'.result = Ok)
         => \A a \in DOMAIN input_sessions' : input_sessions'[a].time = last'.arg]_vars

\* C4: advance_to(next) with next equal to now_at returns Ok and changes
\* nothing: now_at, the ingest sessions and the forward, reverse and relation
\* trace frontiers are unchanged.
C4_AdvanceToNowIsNoOp ==
    [][(last'.op = "advance_to" /\ last'.arg = now_at)
         => /\ last'.result = Ok
            /\ UNCHANGED DomainState]_vars

\* advance_to(now_at) has returned Ok while a session still buffers an update
\* (an advance to a later time would have flushed it).
C4_Witness ==
    /\ last.op = "advance_to"
    /\ last.result = Ok
    /\ last.arg = now_at
    /\ now_at > 0
    /\ \E a \in DOMAIN input_sessions : Len(input_sessions[a].buffer) > 0

\* C5 (as claimed): on every successful advance_to(next) with next > now_at,
\* each attribute or relation that has a trace_slack gets its traces advanced
\* to next - trace_slack, a valid timestamp never greater than the new
\* now_at; those without a trace_slack are not advanced.
C5_TraceFrontiers ==
    [][(last'.op = "advance_to" /\ last'.result = Ok /\ last'.arg > now_at)
         => /\ \A a \in DOMAIN attributes :
                 IF attributes[a].trace_slack.some
                 THEN LET f == last'.arg - attributes[a].trace_slack.val
                      IN  /\ 0 <= f /\ f <= now_at'
                          /\ forward'[a] = IndexAdvanceBy(forward[a], f)
                          /\ reverse'[a] = IndexAdvanceBy(reverse[a], f)
                 ELSE forward'[a] = forward[a] /\ reverse'[a] = reverse[a]
            /\ \A n \in DOMAIN relations :
                 IF relations[n].trace_slack.some
                 THEN LET f == last'.arg - relations[n].trace_slack.val
                      IN  0 <= f /\ f <= now_at' /\ arrangements'[n] = f
                 ELSE arrangements'[n] = arrangements[n]]_vars

\* C6: create_attribute(name, ..) and create_source(name, ..) return
\* df.error.category/conflict whenever an attribute index named name already
\* exists, whichever of the two made it, and then leave the attribute
\* configurations, the forward and reverse indices and the ingest sessions
\* unchanged.
C6_DuplicateNameConflict ==
    [][(last'.op \in {"create_attribute", "create_source"} /\ last'.arg \in DOMAIN forward)
         => /\ last'.result = Conflict
            /\ UNCHANGED <<attributes, forward, reverse, input_sessions>>]_vars

\* create_attribute was refused for a name whose index create_source made.
C6_Witness ==
    /\ last.op = "create_attribute"
    /\ last.result = Conflict
    /\ last.arg \in DOMAIN forward
    /\ last.arg \notin DOMAIN attributes

\* The updates a list of datoms holds for attribute a, in list order, as a
\* session at time t buffers them.
UpdatesFor(tx_data, a, t) ==
    LET mine == SelectSeq(tx_data, LAMBDA d : d.a = a)
    IN  [i \in 1..Len(mine) |-> [e |-> mine[i].e, v |-> mine[i].v, t |-> t, diff |-> mine[i].op]]

\* C7: transact(list) returns df.error.category/not-found if and only if some
\* datom of the list names an attribute that has no ingest session; otherwise
\* it returns Ok and every datom is applied to its attribute's session with
\* its diff, in list order.
C7_TransactDispatch ==
    [][last'.op = "transact"
         => LET tx_data == last'.arg
                missing == \E i \in 1..Len(tx_data) : tx_data[i].a \notin DOMAIN input_sessions
            IN  /\ (last'.result = NotFound) <=> missing
                /\ ~missing =>
                     /\ last'.result = Ok
                     /\ DOMAIN input_sessions' = DOMAIN input_sessions
                     /\ \A a \in DOMAIN input_sessions :
                          /\ input_sessions'[a].time = input_sessions[a].time
                          /\ input_sessions'[a].buffer =
                               input_sessions[a].buffer
                                 \o UpdatesFor(tx_data, a, input_sessions[a].time)]_vars

\* A transaction of two different datoms of one attribute was applied.
C7_Witness ==
    /\ last.op = "transact"
    /\ last.result = Ok
    /\ Len(last.arg) = 2
    /\ last.arg[1].a = last.arg[2].a
    /\ last.arg[1].op # last.arg[2].op

\* The sum of the diffs the operator has given for (e, v) at times up to t.
RECURSIVE SumDiffs(_, _, _, _)
SumDiffs(e, v, t, i) ==
    IF i > Len(output) THEN 0
    ELSE (IF output[i].e = e /\ output[i].v = v /\ output[i].t <= t THEN output[i].diff ELSE 0)
         + SumDiffs(e, v, t, i + 1)

Accumulated(e, v, t) == SumDiffs(e, v, t, 1)

\* C8: for a CardinalityOne attribute, after any sequence of proposals and
\* frontier advances, at every logical time t and for every Eid the
\* accumulated output of the operator contains at most one value with net
\* positive multiplicity.
C8_AtMostOneValue ==
    \A e \in Eids, t \in 0..MaxTime :
        Cardinality({v \in Values : Accumulated(e, v, t) > 0}) <= 1

\* The operator has replaced the value of an Eid: it asserted a value at one
\* time, and at a later time retracted it and asserted another.
C8_Witness ==
    \E i, j, k \in 1..Len(output) :
        /\ i < j /\ j < k
        /\ output[i].diff = 1 /\ output[j].diff = -1 /\ output[k].diff = 1
        /\ output[i].e = output[j].e /\ output[j].e = output[k].e
        /\ output[i].v = output[j].v /\ output[k].v # output[i].v
        /\ output[i].t < output[j].t /\ output[j].t = output[k].t

\* The operator has nothing left to do: every update sent has been pulled
\* and every notification delivered.
Quiescent ==
    /\ handle.buffer = <<>>
    /\ channel = <<>>
    /\ notificator = {}

\* C9 (as claimed): when value A is transacted for an Eid at time t0 and
\* value B for the same Eid at a later time t1, the operator emits exactly
\* +(Eid,A)@t0, -(Eid,A)@t1 and +(Eid,B)@t1, however the two batches are
\* grouped into activations of the operator.
C9_Overwrite ==
    \A e \in Eids, a \in Values, b \in Values, t0 \in 0..MaxTime, t1 \in 0..MaxTime :
        (/\ t0 < t1
         /\ a # b
         /\ arrived = <<[e |-> e, v |-> a, t |-> t0, diff |-> 1],
                        [e |-> e, v |-> b, t |-> t1, diff |-> 1]>>
         /\ Quiescent)
        => output = <<[e |-> e, v |-> a, t |-> t0, diff |-> 1],
                      [e |-> e, v |-> a, t |-> t1, diff |-> -1],
                      [e |-> e, v |-> b, t |-> t1, diff |-> 1]>>

\* The proposals for e at time t the operator has pulled, in arrival order.
ProposalsAt(e, t) == SelectSeq(arrived, LAMBDA u : u.e = e /\ u.t = t)

\* C10 (as claimed): when several proposals for the same Eid carry the same
\* logical time, the value asserted for that Eid at that time is the one of
\* the proposal that arrived last at the operator, and no other value is
\* asserted (stated here for runs in which every proposal is an assertion).
C10_LastArrivalWins ==
    \A e \in Eids, t \in 0..MaxTime :
        LET proposals == ProposalsAt(e, t)
        IN  (Len(proposals) >= 2 /\ \A i \in 1..Len(arrived) : arrived[i].diff = 1)
            => \A i \in 1..Len(output) :
                   (output[i].e = e /\ output[i].t = t /\ output[i].diff = 1)
                       => output[i].v = proposals[Len(proposals)].v

\* Sum of the diffs of the updates of (k, v) in an index trace at times up
\* to t: the multiplicity of (k, v) in the index as of t.
RECURSIVE Multiplicity(_, _, _, _, _)
Multiplicity(trace, k, v, t, i) ==
    IF i > Len(trace) THEN 0
    ELSE (IF trace[i].k = k /\ trace[i].v = v /\ trace[i].t <= t
          THEN trace[i].diff ELSE 0) + Multiplicity(trace, k, v, t, i + 1)

\* Both indices have arranged every update of tuples.
Indexed ==
    /\ Len(forward_trace) = Len(output)
    /\ Len(reverse_trace) = Len(output)

\* The pipeline has nothing left to do for the times before its frontier.
PipelineQuiescent ==
    /\ Quiescent
    /\ semantics = "CardinalityMany"
           => Corrections(arrived, output, 0, input_frontier) = <<>>
    /\ Indexed

\* The updates transacted at time t, in arrival order.
TransactedAt(t) == SelectSeq(arrived, LAMBDA u : u.t = t)

\* The updates transacted at time t are the datom (e, v) once with diff +1
\* and once with diff -1, in either order.
AssertedAndRetractedAt(e, v, t) ==
    LET us == TransactedAt(t)
    IN  /\ Len(us) = 2
        /\ us[1].e = e /\ us[1].v = v
        /\ us[2].e = e /\ us[2].v = v
        /\ us[1].diff + us[2].diff = 0

\* C11 (as claimed): for an attribute of any input semantics, transacting a
\* datom with diff +1 and the same datom with diff -1 at the same logical
\* time t leaves the accumulated contents of the forward and of the reverse
\* index as of t equal to what they were before t.
C11_AssertRetractNoChange ==
    \A e \in Eids, v \in Values, t \in 0..MaxTime :
        (/\ AssertedAndRetractedAt(e, v, t)
         /\ input_frontier > t
         /\ PipelineQuiescent)
        => \A e2 \in Eids, v2 \in Values :
               /\ Multiplicity(forward_trace, e2, v2, t, 1)
                      = Multiplicity(forward_trace, e2, v2, t - 1, 1)
               /\ Multiplicity(reverse_trace, v2, e2, t, 1)
                      = Multiplicity(reverse_trace, v2, e2, t - 1, 1)

\* C12: for every logical time, (e, v) is in the forward index of an
\* attribute with multiplicity m exactly when (v, e) is in its reverse index
\* with multiplicity m, once both indices have arranged the same updates.
C12_ForwardMirrorsReverse ==
    Len(forward_trace) = Len(reverse_trace)
        => \A e \in Eids, v \in Values, t \in 0..MaxTime :
               Multiplicity(forward_trace, e, v, t, 1)
                   = Multiplicity(reverse_trace, v, e, t, 1)

\* Both indices hold a pair asserted at one time and retracted at a later
\* one, so that its multiplicity differs between logical times.
C12_Witness ==
    /\ Indexed
    /\ \E e \in Eids, v \in Values :
          /\ Multiplicity(forward_trace, e, v, 0, 1) = 1
          /\ Multiplicity(forward_trace, e, v, 1, 1) = 0
          /\ Multiplicity(reverse_trace, v, e, 0, 1) = 1
          /\ Multiplicity(reverse_trace, v, e, 1, 1) = 0

\* The step handles the request at the head of the command, of this kind.
Handles(kind) ==
    /\ command.taken
    /\ command.requests # <<>>
    /\ Head(command.requests).kind = kind
    /\ command'.taken
    /\ command'.requests = Tail(command.requests)

\* The buttons of dataflows of the relation among `buttons`.
ButtonsOf(name, buttons) == {b \in buttons : b.name = name}

\* C13: Uninterest(name) removes only the client's token from the interest
\* set of name; the shutdown handle is dropped and the interest entry removed
\* exactly when the set becomes empty, never while another token is
\* interested; on a name with no interest entry it changes nothing.
C13_UninterestRemovesOnlyToken ==
    [][Handles("Uninterest")
         => LET name == Head(command.requests).name
                token == command.client
            IN  IF name \notin DOMAIN interests
                THEN UNCHANGED <<interests, shutdown_handles, live_buttons>>
                ELSE LET rest == interests[name] \ {token}
                     IN  /\ DOMAIN interests' \ {name} = DOMAIN interests \ {name}
                         /\ \A n \in DOMAIN interests \ {name} : interests'[n] = interests[n]
                         /\ IF rest = {}
                            THEN /\ name \notin DOMAIN interests'
                                 /\ name \notin DOMAIN shutdown_handles'
                                 /\ name \in DOMAIN shutdown_handles
                                        => shutdown_handles[name] \cap live_buttons' = {}
                            ELSE /\ name \in DOMAIN interests'
                                 /\ interests'[name] = rest
                                 /\ UNCHANGED <<shutdown_handles, live_buttons>>]_vars

\* A client has withdrawn its interest in a compiled relation another token
\* is interested in: the entry and the live handle are still there.
C13_Witness ==
    /\ before.kind = "Uninterest"
    /\ before.held
    /\ before.name \in DOMAIN interests
    /\ before.client \notin interests[before.name]
    /\ before.name \in DOMAIN shutdown_handles
    /\ shutdown_handles[before.name] # {}
    /\ shutdown_handles[before.name] \subseteq live_buttons

Takes == ~command.taken /\ command'.taken

\* The step ends the loop's body for the command it was handling.
Finishes == command.taken /\ ~command'.taken

\* C20: next_tx increases by exactly one for every command taken from the
\* sequencer (and by nothing else); when manual_advance is unset, now_at
\* equals next_tx after every processed command, whatever the requests of
\* the command were, a client's AdvanceDomain included; when manual_advance
\* is set, now_at changes only through AdvanceDomain requests.
C20_NextTxDrivesNowAt ==
    [][/\ next_tx' = IF Takes THEN next_tx + 1 ELSE next_tx
       /\ (Finishes /\ ~manual_advance) => now_at' = next_tx'
       /\ (manual_advance /\ now_at' # now_at) => Handles("AdvanceDomain")]_vars

\* The step is a RESULTS event, or an ERRORS event, of the worker.
ResultsHandled == sent'.seq # sent.seq /\ sent'.event = "RESULTS"
ErrorsHandled == sent'.seq # sent.seq /\ sent'.event = "ERRORS"

\* C17: a result frame for a relation is sent only on connections of clients
\* that issued Interest for it and have not issued Uninterest since; a client
\* of this worker gets no frame because a client of another worker with the
\* same token is interested.
C17_FramesOnlyToSubscribers ==
    [][ResultsHandled
         => \A f \in sent'.results :
                [owner |-> WorkerIndex, client |-> f.conn, name |-> f.name,
                 gone |-> FALSE] \in subscribers]_vars

\* The frames for clients of this worker that held interest in the relation
\* when they disconnected, and whose key no other connection has taken.
Disconnected(frames) ==
    {f \in Vacant(frames) :
        [owner |-> WorkerIndex, client |-> f.conn, name |-> f.name,
         gone |-> TRUE] \in subscribers}

\* C18: when a token in the interest set of a relation belongs to a client
\* that has disconnected, the next delivery of results for the relation
\* revokes the interest of that token, the worker keeps running, and the
\* frames for the other interested clients are sent.
C18_DisconnectedInterestRevoked ==
    [][(ResultsHandled /\ Disconnected(ResultFrames) # {})
         => /\ ~panicked'
            /\ \A f \in Disconnected(ResultFrames) :
                   f.name \in DOMAIN interests' => f.conn \notin interests'[f.name]
            /\ sent'.results = ResultFrames \ Vacant(ResultFrames)]_vars

\* C19: every error of a request is delivered on the connection of the
\* client that issued the command and on no other connection, with the time
\* read when the command was taken; on every worker that handles the
\* command, and for the commands of the system client.
C19_ErrorsToIssuerOnly ==
    [][ErrorsHandled
         => /\ ~panicked'
            /\ \A f \in sent'.errors : f.owner = WorkerIndex
            /\ \A i \in 1..Len(recv_errors) :
                   (recv_errors[i].owner = WorkerIndex
                       /\ recv_errors[i].tokens \subseteq connections)
                     => \A t \in recv_errors[i].tokens :
                            [conn |-> t, error |-> recv_errors[i].error,
                             time |-> recv_errors[i].time,
                             owner |-> recv_errors[i].owner] \in sent'.errors]_vars

\* The attributes whose ingest session was closed: they have a configuration
\* (only create_attribute gives one, together with a session) and no session.
Closed == DOMAIN attributes \ DOMAIN input_sessions

\* next - trace_slack does not overflow for any attribute or relation.
SlackFits(next) ==
    /\ \A a \in WithSlack(attributes) : ~Overflows(next, attributes[a].trace_slack.val)
    /\ \A n \in WithSlack(relations) : ~Overflows(next, relations[n].trace_slack.val)

\* C28: close_input(name) removes the ingest session of name and returns Ok
\* when the session exists, and returns df.error.category/not-found and
\* changes nothing when it does not. After a successful close, transact on
\* name returns not-found, advance_to to a time not before now_at still
\* succeeds (where the slack subtraction does not overflow, which no close
\* changes), and the forward and reverse indices of name stay registered:
\* create_attribute(name) reports conflict.
C28_CloseInput ==
    [][/\ last'.op = "close_input"
            => IF last'.arg \in DOMAIN input_sessions
               THEN /\ last'.result = Ok
                    /\ input_sessions' = Remove(input_sessions, last'.arg)
                    /\ UNCHANGED <<now_at, attributes, forward, reverse, relations,
                                   arrangements>>
               ELSE /\ last'.result = NotFound
                    /\ UNCHANGED DomainState
       /\ \A name \in Closed :
            /\ name \in DOMAIN forward' /\ name \in DOMAIN reverse'
            /\ (last'.op = "transact"
                   /\ \E i \in 1..Len(last'.arg) : last'.arg[i].a = name)
                 => last'.result = NotFound
            /\ (last'.op = "advance_to" /\ last'.arg >= now_at /\ SlackFits(last'.arg))
                 => last'.result = Ok /\ now_at' = last'.arg
            /\ (last'.op = "create_attribute" /\ last'.arg = name)
                 => last'.result = Conflict]_vars

\* A transaction on a closed attribute of an advanced domain was refused; the
\* indices of the attribute are still there.
C28_Witness ==
    /\ last.op = "transact"
    /\ last.result = NotFound
    /\ Len(last.arg) > 0
    /\ \A i \in 1..Len(last.arg) : last.arg[i].a \in Closed \cap DOMAIN forward
    /\ now_at > 0

\* The step rejects an input that did not parse.
Rejects ==
    /\ ~command.taken
    /\ before'.kind = "Malformed"
    /\ sent' = sent
    /\ <<recv_errors, panicked>>' # <<recv_errors, panicked>>

\* C29: an input that does not parse as a list of requests pushes no command
\* and yields one error of category df.error.category/incorrect addressed to
\* the sender, whose time is next_tx - 1 computed without wrapping below zero,
\* also when next_tx is 0.
C29_MalformedInput ==
    [][Rejects
         => /\ ~panicked'
            /\ UNCHANGED <<command, next_tx>>
            /\ Len(recv_errors') = Len(recv_errors) + 1
            /\ LET e == recv_errors'[Len(recv_errors')]
               IN  /\ e.error = Incorrect
                   /\ e.tokens = {before'.client}
                   /\ e.time = next_tx - 1
                   /\ e.time >= 0]_vars

\* The attributes and the rules a plan refers to, its sub-plans included,
\* that the context does not have.
RECURSIVE MissingReferences(_, _)
MissingReferences(ctx, plan) ==
    (IF plan.variant = "MatchA" /\ plan.aid \notin ctx.attributes THEN {plan.aid} ELSE {})
      \cup (IF plan.variant = "RuleExpr" /\ plan.name \notin DOMAIN ctx.rules
            THEN {plan.name} ELSE {})
      \cup (Range(plan.pull_attributes) \ ctx.attributes)
      \cup UNION {MissingReferences(ctx, plan.plans[i]) : i \in DOMAIN plan.plans}

\* C21: for every plan variant, PullLevel and Pull and the plans nested in
\* them included, compiling a rule whose plan refers to an attribute or a
\* rule that does not exist returns df.error.category/not-found before any
\* operator is built, and does not panic.
C21_MissingDependencyNotFound ==
    (/\ implemented.name \in DOMAIN context.rules
     /\ MissingReferences(context, context.rules[implemented.name].plan) # {})
      => /\ implemented.result = NotFound
         /\ implemented.operators = 0

\* Two rules of the list have the same name.
SameName(rule_list) ==
    \E i, j \in 1..Len(rule_list) : i # j /\ rule_list[i].name = rule_list[j].name

\* C22: whenever the name-sorted list of the rules collected for an
\* implement call holds two rules of the same name, at any position of the
\* list, the call returns df.error.category/conflict.
C22_DuplicateRulesConflict ==
    LET rules_of == collect_dependencies(context, <<implemented.name>>)
    IN  (/\ implemented.name # ""
         /\ rules_of.result = Ok
         /\ SameName(rules_of.rules))
          => implemented.result = Conflict

\* C30: with n workers reading the same file, every row is given to its
\* session by exactly the worker whose index is the row's record index modulo
\* n, once that worker has read past it, and by no other worker and never
\* twice; the record index of a JSON row counts the blank lines before it
\* (it is the line's position in the file), and a blank line is given by
\* nobody.
Times(seq, x) == Cardinality({k \in 1..Len(seq) : seq[k] = x})

C30_StridePartition ==
    \A w \in Readers :
        /\ readers[w].index = readers[w].position
        /\ ~readers[w].capability => readers[w].position = Len(file)
        /\ \A i \in 0..(MaxRows - 1) :
               Times(given[w], i) =
                   IF /\ i < readers[w].position
                      /\ file[i + 1] # BlankLine
                      /\ w = i % peers
                   THEN 1 ELSE 0

\* Three workers have read a JSON file to its end in which a blank line
\* comes before two rows.
C30_Witness ==
    /\ format = "json"
    /\ peers = 3
    /\ file = <<ObjectLine, BlankLine, ObjectLine, ObjectLine>>
    /\ \A w \in Readers : ~readers[w].capability
    /\ given = (0 :> <<0, 3>> @@ 1 :> <<>> @@ 2 :> <<2>>)

\* C25: a PullLevel with pulled attributes produces, for every tuple p of
\* its input, every pulled attribute a and every (e, v) of the forward index
\* of a with e the last value of p, the tuple interleave(p, path_attributes)
\* followed by Aid(a) and v, as many times as the product of the two
\* multiplicities, and nothing else.
Pulls(level) ==
    LET input == Evaluated(level.plans[1], [n \in {} |-> NoTuples], Indices).tuples
        pulled == level.pull_attributes
        datoms == UNION {DOMAIN Indices[a] : a \in DOMAIN Indices}
    IN  {c \in [p : DOMAIN input, i : 1..Len(pulled), datom : datoms] :
            /\ c.datom \in DOMAIN Indices[pulled[c.i]]
            /\ c.datom[1] = c.p[Len(c.p)]}

Pulled(level, c) ==
    interleave(c.p, level.path_attributes).result
        \o <<AidValue(level.pull_attributes[c.i]), c.datom[2]>>

PullLevelEmits(level, relation) ==
    LET input == Evaluated(level.plans[1], [n \in {} |-> NoTuples], Indices).tuples
        product == [c \in Pulls(level) |-> input[c.p] * Indices[level.pull_attributes[c.i]][c.datom]]
    IN  /\ ~relation.panics
        /\ \A c \in Pulls(level) : ~interleave(c.p, level.path_attributes).panics
        /\ DOMAIN relation.tuples = {Pulled(level, c) : c \in Pulls(level)}
        /\ \A t \in DOMAIN relation.tuples :
               relation.tuples[t] = SumOf(product, {c \in Pulls(level) : Pulled(level, c) = t})

C25_PullLevelEmits ==
    (produced.lowered /\ query.variant = "PullLevel" /\ query.pull_attributes # <<>>)
        => PullLevelEmits(query, produced)

\* C26: the output of a Pull is the sum, as bags, of the outputs of its
\* levels, nothing added and nothing dropped; a level that pulls nothing
\* gives its input tuples interleaved with its path attributes, or its input
\* as it is when it has no path attributes either.
LevelGives(level) ==
    LET input == Evaluated(level.plans[1], [n \in {} |-> NoTuples], Indices)
    IN  IF level.pull_attributes # <<>>
        THEN Evaluated(level, [n \in {} |-> NoTuples], Indices)
        ELSE IF level.path_attributes = <<>> THEN input
        ELSE IF \E p \in DOMAIN input.tuples : interleave(p, level.path_attributes).panics
        THEN Panicked
        ELSE Relation(FALSE,
                [t \in {interleave(p, level.path_attributes).result : p \in DOMAIN input.tuples} |->
                    SumOf(input.tuples,
                          {p \in DOMAIN input.tuples :
                              interleave(p, level.path_attributes).result = t})])

PullIsSum(pull, relation) ==
    LET gives == [i \in 1..Len(pull.plans) |-> LevelGives(pull.plans[i])]
        all == DOMAIN relation.tuples \cup UNION {DOMAIN gives[i].tuples : i \in DOMAIN gives}
    IN  /\ ~relation.panics
        /\ \A i \in DOMAIN gives : ~gives[i].panics
        /\ \A t \in all :
               Copies(relation.tuples, t)
                   = SumOf([i \in DOMAIN gives |-> Copies(gives[i].tuples, t)], DOMAIN gives)

C26_PullIsSum ==
    (produced.lowered /\ query.variant = "Pull") => PullIsSum(query, produced)

\* The rule of a name evaluated directly on collections: its plan on them,
\* a rule it names evaluated first.
Direct(ctx, name, collections) ==
    LET first == {n \in DOMAIN ctx.rules : dependencies(ctx.rules[n].plan).names = <<>>}
        local == [n \in first |->
                     Evaluated(ctx.rules[n].plan, [m \in {} |-> NoTuples], collections).tuples]
    IN  Evaluated(ctx.rules[name].plan, local, collections)

\* The datoms asserted, as a set; and as the input semantics counts them:
\* once each under CardinalityMany, as often as asserted under Raw.
AssertedSet == [a \in DOMAIN db |-> [t \in DOMAIN db[a] |-> 1]]
AssertedCounted ==
    [a \in DOMAIN db |->
        IF input_semantics[a] = "CardinalityMany" THEN [t \in DOMAIN db[a] |-> 1] ELSE db[a]]

RECURSIVE TransitiveClosure(_)
TransitiveClosure(pairs) ==
    LET linked == pairs \cup {<<m[1][1], m[2][2]>> :
                                 m \in {n \in pairs \X pairs : n[1][2] = n[2][1]}}
    IN  IF linked = pairs THEN pairs ELSE TransitiveClosure(linked)

Chain == {<<Eid("1"), Eid("2")>>, <<Eid("2"), Eid("3")>>, <<Eid("3"), Eid("4")>>}

\* C27: the published relation of the recursive rule reach over acyclic
\* edges holds exactly the pairs of the transitive closure of edge; over the
\* chain 1 -> 2 -> 3 -> 4 these are six pairs, each with multiplicity one.
C27_ReachIsTransitiveClosure ==
    (produced.lowered /\ implemented.name = "reach")
        => /\ ~produced.panics
           /\ DOMAIN produced.tuples = TransitiveClosure(DOMAIN db["edge"])
           /\ db["edge"] = [t \in Chain |-> 1]
                 => /\ Cardinality(DOMAIN produced.tuples) = 6
                    /\ \A t \in DOMAIN produced.tuples : produced.tuples[t] = 1

\* reach is published over the chain: (1, 4), three edges away, is in it once.
C27_Witness ==
    /\ produced.lowered
    /\ implemented.name = "reach"
    /\ db["edge"] = [t \in Chain |-> 1]
    /\ Copies(produced.tuples, <<Eid("1"), Eid("4")>>) = 1
    /\ Cardinality(DOMAIN produced.tuples) = 6

\* The natural join of the bindings of a Hector plan, projected onto its
\* variables in their order: every assignment of values to the variables
\* under which each binding is a datom of its attribute, as often as the
\* product of the datoms' counts.
NaturalJoin(plan, indices) ==
    LET values == UNION {{d[1], d[2]} : d \in UNION {DOMAIN indices[a] : a \in DOMAIN indices}}
        ValueOf(t, x) == t[Position(plan.variables, x)]
        Datoms(t, k) == Copies(indices[plan.bindings[k].aid],
                              <<ValueOf(t, plan.bindings[k].e), ValueOf(t, plan.bindings[k].v)>>)
        satisfying == {t \in [DOMAIN plan.variables -> values] :
                          \A k \in DOMAIN plan.bindings : Datoms(t, k) > 0}
    IN  [t \in satisfying |->
            IF Len(plan.bindings) = 1 THEN Datoms(t, 1)
            ELSE IF Len(plan.bindings) = 2 THEN Datoms(t, 1) * Datoms(t, 2)
            ELSE Datoms(t, 1) * Datoms(t, 2) * Datoms(t, 3)]

TriangleEdges == {<<Eid("1"), Eid("2")>>, <<Eid("2"), Eid("3")>>, <<Eid("1"), Eid("3")>>}

RECURSIVE References(_)
RECURSIVE ReferencesOf(_, _)
ReferencesOf(plans, i) ==
    IF i > Len(plans) THEN <<>> ELSE References(plans[i]) \o ReferencesOf(plans, i + 1)
References(plan) ==
    (IF plan.variant = "RuleExpr" THEN <<plan.name>> ELSE <<>>) \o ReferencesOf(plan.plans, 1)

\* The names of a list that are not in a set, each once, in list order.
RECURSIVE Fresh(_, _, _)
Fresh(names, seen, i) ==
    IF i > Len(names) THEN <<>>
    ELSE IF names[i] \in seen THEN Fresh(names, seen, i + 1)
    ELSE <<names[i]>> \o Fresh(names, seen \cup {names[i]}, i + 1)

\* The names reachable from a queue of names through rule references, in
\* breadth-first discovery order, each once.
RECURSIVE BreadthFirst(_, _, _, _)
BreadthFirst(ctx, queue, seen, order) ==
    IF queue = <<>> THEN order
    ELSE LET name == Head(queue)
             found == IF name \in DOMAIN ctx.rules
                      THEN Fresh(References(ctx.rules[name].plan), seen, 1) ELSE <<>>
         IN  BreadthFirst(ctx, Tail(queue) \o found, seen \cup Range(found),
                          Append(order, name))

Reachable(ctx, names) ==
    LET named == Fresh(names, {}, 1) IN BreadthFirst(ctx, named, Range(named), <<>>)

\* A reachable rule is missing, or an attribute or a rule that the plan of
\* a reachable rule requires.
Unresolved(ctx, names) ==
    \E name \in Range(Reachable(ctx, names)) :
        \/ name \notin DOMAIN ctx.rules
        \/ MissingReferences(ctx, ctx.rules[name].plan) # {}

\* C31: a call of collect_dependencies that succeeds returns the rules
\* reachable from the names through rule references, each exactly once, in
\* breadth-first discovery order starting with the named rules, also when a
\* name is listed twice or rules refer to each other in a cycle; a call
\* for which a reachable rule, or an attribute the plan of a reachable rule
\* requires, is missing returns df.error.category/not-found.
C31_CollectsReachableOnce ==
    LET order == Reachable(context, collected.names)
    IN  /\ collected.result = Ok
            => collected.rules = [i \in 1..Len(order) |-> context.rules[order[i]]]
        /\ (collected.result # "none" /\ Unresolved(context, collected.names))
            => collected.result = NotFound

\* C32: with the default consolidate closing, the iterative scope built by
\* implement for a recursive rule reaches a fixed point after finitely many
\* rounds, over any finite input, edges with cycles included.
C32_FixedPointReached == (scope.running /\ ~set_semantics) ~> scope.fixed

\* The rules of a call of implement, in the order they are lowered.
RulesOf(ctx, name) ==
    LET collection == collect_dependencies(ctx, <<name>>)
    IN  SortByName(collection.rules, Len(collection.rules))

\* C33: the shutdown handle that a successful implement returns holds one
\* button for every trace import made while lowering the rules, those of
\* the data patterns included, in the order of the imports: no import is
\* left without a button.
C33_EveryImportHasButton ==
    implemented.result = Ok
        => Merged(RulesOf(context, implemented.name), 1)
             = Imports(RulesOf(context, implemented.name), 1)

\* How often a button is in a sequence of buttons.
Presses(buttons, b) == Cardinality({i \in DOMAIN buttons : buttons[i] = b})

\* How often a button is among the buttons of the owned handles.
Holdings(b) ==
    SumOf([h \in Owned |-> Presses(handles[h].shutdown_buttons, b)], Owned)

\* C34: over any sequence of from_button, add_button, merge_with, merge and
\* drop, every button made is either held once by one owned handle and not
\* pressed, or held by none and pressed exactly once; a step presses
\* buttons only by dropping an owned handle, and then presses the buttons of
\* that handle in the order they were added; adding and merging press
\* nothing, and a handle whose buttons a merge has moved out presses nothing.
C34_PressedOnceOnDrop ==
    /\ [](\A b \in 1..made : Holdings(b) + Presses(pressed, b) = 1)
    /\ [][\/ pressed' = pressed
          \/ \E h \in Owned :
                /\ handles'[h].state = "dropped"
                /\ pressed' = pressed \o handles[h].shutdown_buttons]_vars

\* A handle that took the buttons of another was dropped, and pressed them.
C34_Witness ==
    /\ \E h \in DOMAIN handles : handles[h].state = "moved"
    /\ \E h \in DOMAIN handles : handles[h].state = "dropped"
    /\ Len(pressed) >= 2

\* C35: when transact returns df.error.category/not-found, no datom of the
\* list has been applied to any ingest session.
C35_TransactAllOrNothing ==
    [][(last'.op = "transact" /\ last'.result = NotFound)
         => input_sessions' = input_sessions]_vars

\* C36: an Interest(name) whose compilation fails leaves the interest map
\* as it was: the token of the client is not recorded for name.
C36_FailedInterestNotRecorded ==
    [][(/\ Handles("Interest")
        /\ NotArranged(Head(command.requests).name)
        /\ Interest(Head(command.requests).name, command.owner).result # Ok)
         => interests' = interests]_vars

\* C37: after the worker has handled a RESULTS, ERRORS or CLI event each of
\* the three channels is registered with the poll under its own token, so a
\* message waiting on the results channel or on the errors channel is received
\* in the end (unless the worker has panicked).
C37_ChannelsReregistered ==
    /\ [](registration = [results |-> "RESULTS", errors |-> "ERRORS", cli |-> "CLI"])
    /\ (recv_results # <<>>) ~> (recv_results = <<>> \/ panicked)
    /\ (recv_errors # <<>>) ~> (recv_errors = <<>> \/ panicked)

\* The worker is between two events with nothing left to deliver: no batch
\* waits in the results channel, and the relation's dataflow, if its results
\* come to this worker, has passed on everything up to the current time.
Settled(name) ==
    /\ ~panicked
    /\ ~command.taken
    /\ recv_results = <<>>
    /\ (\E b \in live_buttons : b.name = name /\ b.owner = WorkerIndex) => emitted = contents

\* The clients of this worker that hold interest in the relation.
Holders(name) ==
    {c.client : c \in {d \in subscribers : d.name = name /\ d.owner = WorkerIndex /\ ~d.gone}}

\* C38: once everything up to the current time has been delivered, the diffs
\* delivered to a client that holds interest in the relation sum to the
\* relation's contents, also for a client that subscribed when the relation
\* was compiled already or when its results go to another worker.
C38_DeliveredSumsToContents ==
    \A name \in RelNames :
        Settled(name) => \A client \in Holders(name) : delivered[client] = contents

\* C39: a Flow request that reports an error (its sink is unknown or its
\* source does not compile) leaves the sinks of the domain as they were.
C39_FailedFlowKeepsSinks ==
    [][(Handles("Flow") /\ recv_errors' # recv_errors) => sinks' = sinks]_vars

\* The elements of constants and of values by turns, constants first.
Alternates(result, values, constants) ==
    /\ Len(result) = Len(values) + Len(constants)
    /\ \A k \in 1..Len(constants) : result[2 * k - 1] = AidValue(constants[k])
    /\ \A k \in 1..Len(values) : result[2 * k] = values[k]

\* C40: interleave(values, constants) reads no index outside either sequence,
\* whatever their lengths; with both non-empty its result has all the
\* constants and all the values by turns, in order, starting with the first
\* constant; with either empty its result is values.
C40_InterleaveTotal ==
    (produced.lowered /\ query.variant = "interleave")
        => /\ ~produced.panics
           /\ IF query.values = <<>> \/ query.constants = <<>>
              THEN produced.tuples = query.values
              ELSE Alternates(produced.tuples, query.values, query.constants)

====
